---------------------------- MODULE Spec2Model ----------------------------
(***************************************************************************)
(* A model of the illuminatus web clients: the tag-toggle handlers that    *)
(* rewrite the active query, the thumbnail pagers, the filter pipeline of  *)
(* an asset with the editor's range preview, and the tag list of a photo.  *)
(* Strings are sequences of one-character strings.                         *)
(***************************************************************************)
EXTENDS Integers, Sequences, FiniteSets, TLC

VARIABLES
  activeTags,   \* MediaCtrl: $scope.activeTags, a list of tag names
  location,     \* MediaCtrl: the path handed to $location.path
  path,         \* Browse: useLocation().pathname
  vpath,        \* View: useLocation().pathname as seen by hrefForTag
  tlog,         \* the toggles applied so far: handler, tag, value before
  thumbs,       \* Illuminatus.Thumbs: query, assets, loading, exhausted, and
                \* the ids of the assets that are selected
  tnet,         \* page requests and responses of Thumbs in flight
  scope,        \* MediaCtrl: photos, loading, exhausted, cursor
  mnet,         \* page requests and responses of MediaCtrl in flight
  catalog,      \* the server's ordered list of asset ids for each query
  app,          \* the client page that is open: "editing" (Thumbs) or "media"
  asset,        \* Illuminatus.Asset: rec.filters as known to the client
  server,       \* the filter list the server holds for the asset
  anet,         \* asset requests and responses in flight
  editor,       \* Illuminatus.Editor: isTagging, isRanging, isCropping, range
  elog,         \* the last editor operation, with what it sent
  photo,        \* Photo: meta.user_tags
  pserver,      \* the user_tags the server holds for the photo
  pnet,         \* save requests and responses in flight
  phlog,        \* the last two Photo operations
  wanted,       \* the tags the calls of the photo have set and not cleared since
  dnet,         \* delete requests and their answers in flight
  gone,         \* the ids of the assets deleted through the client so far
  album,        \* the active assets of a batch: the tag list of each
  picked,       \* the selection and the cursor of a batch
  bserver,      \* the tag lists the server holds for the assets of a batch
  bnet,         \* tag requests and answers of a batch in flight
  blog,         \* the last batch operation, with what it sent
  tagui,        \* the Tags component: the tag records and blocks it builds
  config,       \* ConfigContext: the shared tag records of the library
  ctrl,         \* a controller of the route /:tags: the tags it was given and
                \* the list it parsed from them
  mon,          \* illuminatus-monitor.sh: the clock, the trigger file, the events
                \* waiting in the two pipes and the position of each loop
  selectedIds,  \* MediaCtrl: the ids of the selected photos
  label,        \* Label: assets, cursor and the selected indexes
  viewer,       \* View with useCurrent: assets, the current index, what is shown
  related,      \* Asset: the Duplicates and Similar lists and their requests
  hook          \* useAssets of hooks.jsx: the list, the state of the pager and
                \* its requests in flight

vars == <<activeTags, location, path, vpath, tlog, thumbs, tnet, scope, mnet,
          catalog, app, asset, server, anet, editor, elog, photo, pserver, pnet, phlog,
          wanted, dnet, gone, album, picked, bserver, bnet, blog, tagui, config, ctrl,
          mon, selectedIds, label, viewer, related, hook>>

toggleVars == <<activeTags, location, path, vpath, tlog>>
pagerVars  == <<thumbs, tnet, scope, mnet, catalog, app>>
editVars   == <<asset, server, anet, editor, elog>>
photoVars  == <<photo, pserver, pnet, phlog, wanted>>
deleteVars == <<dnet, gone>>
batchVars  == <<album, picked, bserver, bnet, blog>>
tagVars    == <<tagui, config, ctrl>>
moreVars   == <<mon, selectedIds, label, viewer, related, hook>>
laterVars  == <<deleteVars, batchVars, tagVars, moreVars>>

---------------------------------------------------------------------------
(* Bounds *)
MaxQueryLen == 2    \* tags in an initial query
MaxToggles  == 3    \* toggles in one behaviour
MaxAssets   == 3    \* assets matching a query
MaxInFlight == 1    \* page requests of Thumbs in flight at once
MaxFilters  == 3    \* filters of an asset at the start
MaxShown    == 1    \* filters of the asset the editor opens
MaxCalls    == 2    \* calls of the asset in one behaviour of the pipeline
MaxAdds     == 1    \* of which calls that add a filter
MaxPending  == 2    \* asset requests and responses in flight at once
MaxCommits  == 1    \* commits in one behaviour of the editor
MaxSaves    == 2    \* save requests of a photo in flight at once
MaxBatchCalls == 1  \* batch operations in one behaviour
MaxTagArgs  == 1    \* tags in the add list and in the remove list of tagSelected
MaxBatchPending == 4  \* requests and answers of a batch in flight at once
MaxTagAssets == 2     \* assets whose tags are shown
MaxLoads == 2         \* requests of useAssets in flight
MaxRelated == 2       \* assets the requests of an Asset can return
MaxEvents == 2        \* files created under the watched tree in one behaviour
MaxRouteLen == 3      \* characters of the tags of a route that is typed
MaxRouteChanges == 2  \* route changes in one behaviour
MaxPendingDeletes == 1  \* DELETE requests and answers in flight at once

---------------------------------------------------------------------------
(* Strings and lists *)

Min(S) == CHOOSE x \in S : \A y \in S : x <= y
Max(S) == CHOOSE x \in S : \A y \in S : x >= y

Slash == <<"/">>
Pipe  == <<"|">>

\* String.prototype.indexOf: 0-based position of the first occurrence, or -1
StrIndexOf(s, k) ==
  LET hits == {i \in 1..(Len(s) - Len(k) + 1) : SubSeq(s, i, i + Len(k) - 1) = k}
  IN  IF hits = {} THEN -1 ELSE Min(hits) - 1

\* String.prototype.replace with a string pattern: the first occurrence only
StrReplace(s, k, r) ==
  LET i == StrIndexOf(s, k)
  IN  IF i < 0 THEN s
      ELSE SubSeq(s, 1, i) \o r \o SubSeq(s, i + Len(k) + 1, Len(s))

\* _.indexOf on a list: 0-based position of the first equal element, or -1
ListIndexOf(list, x) ==
  LET hits == {i \in 1..Len(list) : list[i] = x}
  IN  IF hits = {} THEN -1 ELSE Min(hits) - 1

\* Array.prototype.splice(i, 1) with a 0-based index
Splice(list, i) == SubSeq(list, 1, i) \o SubSeq(list, i + 2, Len(list))

RECURSIVE Join(_, _)
Join(list, sep) ==
  IF list = <<>> THEN <<>>
  ELSE IF Len(list) = 1 THEN list[1]
  ELSE list[1] \o sep \o Join(Tail(list), sep)

\* encodeURIComponent on the characters the model uses
EncodeChar(c) ==
  CASE c = "|" -> <<"%", "7", "C">>
    [] c = " " -> <<"%", "2", "0">>
    [] c = "/" -> <<"%", "2", "F">>
    [] c = "%" -> <<"%", "2", "5">>
    [] OTHER   -> <<c>>

RECURSIVE encodeURIComponent(_)
encodeURIComponent(s) ==
  IF s = <<>> THEN <<>> ELSE EncodeChar(Head(s)) \o encodeURIComponent(Tail(s))

\* history resolves a relative target against the current pathname
ResolvePathname(to, from) ==
  IF to = <<>> THEN from
  ELSE IF to[1] = "/" THEN to
  ELSE LET cut == {i \in 1..Len(from) : from[i] = "/"}
       IN  (IF cut = {} THEN <<>> ELSE SubSeq(from, 1, Max(cut))) \o to

---------------------------------------------------------------------------
(* Tag toggles *)

BrowseRoute == <<"b", "r", "o", "w", "s", "e">>
ViewRoute   == <<"v", "i", "e", "w">>

TagNames == {<<"a">>, <<"b">>, BrowseRoute, ViewRoute}

RECURSIVE SeqsUpTo(_, _)
SeqsUpTo(S, n) ==
  IF n = 0 THEN {<<>>}
  ELSE LET shorter == SeqsUpTo(S, n - 1)
       IN  shorter \cup {Append(q, x) : q \in shorter, x \in S}

Queries == SeqsUpTo(TagNames, MaxQueryLen)

LocationOf(tags) ==
  Slash \o Join([i \in 1..Len(tags) |-> encodeURIComponent(tags[i])], Pipe)

RECURSIVE PathOf(_, _)
PathOf(route, tags) ==
  IF tags = <<>> THEN Slash \o route \o Slash
  ELSE PathOf(route, SubSeq(tags, 1, Len(tags) - 1)) \o tags[Len(tags)] \o Slash

Logged(h, t, before) == <<[h |-> h, t |-> t, before |-> before]>>

\* goto as it would be if it never removed a tag
gotoTagsPushOnly(tags, tag) == Append(tags, tag)

\* MediaCtrl.goto
gotoTags(tags, tag) ==
  LET i == ListIndexOf(tags, tag)
  IN  IF i >= 0 THEN Splice(tags, i) ELSE Append(tags, tag)

goto(tag) ==
  /\ Len(tlog) < MaxToggles
  /\ activeTags' = gotoTags(activeTags, tag)
  /\ location' = LocationOf(activeTags')
  /\ tlog' = tlog \o Logged("goto", tag, activeTags)
  /\ UNCHANGED <<path, vpath>>
  /\ UNCHANGED <<pagerVars, editVars, photoVars, laterVars>>

\* Browse: the clickHandler handed to the tag groups
clickTarget(p, name) ==
  LET key == Slash \o name \o Slash
      active == StrIndexOf(p, key) >= 0
  IN  IF active THEN StrReplace(p, key, Slash) ELSE name \o Slash

clickHandler(name) ==
  /\ Len(tlog) < MaxToggles
  /\ path' = ResolvePathname(clickTarget(path, name), path)
  /\ tlog' = tlog \o Logged("browse", name, path)
  /\ UNCHANGED <<activeTags, location, vpath>>
  /\ UNCHANGED <<pagerVars, editVars, photoVars, laterVars>>

\* View: hrefForTag, followed through the Link that carries it
hrefForTag(tag, p) ==
  LET part == Slash \o tag \o Slash
  IN  IF StrIndexOf(p, part) < 0 THEN tag ELSE StrReplace(p, part, Slash)

followTagLink(tag) ==
  /\ Len(tlog) < MaxToggles
  /\ vpath' = ResolvePathname(hrefForTag(tag, vpath), vpath)
  /\ tlog' = tlog \o Logged("view", tag, vpath)
  /\ UNCHANGED <<activeTags, location, path>>
  /\ UNCHANGED <<pagerVars, editVars, photoVars, laterVars>>

InitToggle ==
  /\ \E q \in Queries :
       /\ activeTags = q
       /\ location = LocationOf(q)
       /\ path = PathOf(BrowseRoute, q)
       /\ vpath = PathOf(ViewRoute, q)
  /\ tlog = <<>>

NextToggle ==
  \E t \in TagNames : goto(t) \/ clickHandler(t) \/ followTagLink(t)

---------------------------------------------------------------------------
(* The query a path stands for: its segments after the route segment *)

RECURSIVE SplitSlash(_, _)
SplitSlash(s, cur) ==
  IF s = <<>> THEN <<cur>>
  ELSE IF Head(s) = "/" THEN <<cur>> \o SplitSlash(Tail(s), <<>>)
  ELSE SplitSlash(Tail(s), Append(cur, Head(s)))

RECURSIVE DropEmpty(_)
DropEmpty(list) ==
  IF list = <<>> THEN <<>>
  ELSE IF Head(list) = <<>> THEN DropEmpty(Tail(list))
  ELSE <<Head(list)>> \o DropEmpty(Tail(list))

Segments(p) == DropEmpty(SplitSlash(p, <<>>))
QueryOf(p) == IF Segments(p) = <<>> THEN <<>> ELSE Tail(Segments(p))

Occurs(list, x) == \E i \in 1..Len(list) : list[i] = x
Count(list, x) == Cardinality({i \in 1..Len(list) : list[i] = x})
RemoveFirst(list, x) == Splice(list, ListIndexOf(list, x))

Current(h) == CASE h = "goto" -> activeTags [] h = "browse" -> path [] OTHER -> vpath

\* the last two toggles were made by the same handler with the same tag
TwiceSame(h) ==
  /\ Len(tlog) >= 2
  /\ tlog[Len(tlog) - 1].h = h /\ tlog[Len(tlog)].h = h
  /\ tlog[Len(tlog) - 1].t = tlog[Len(tlog)].t

FirstOfTwo == tlog[Len(tlog) - 1]

AbsentBefore(e) ==
  IF e.h = "goto" THEN ~Occurs(e.before, e.t)
  ELSE StrIndexOf(e.before, Slash \o e.t \o Slash) < 0

\* C1 as stated: toggling twice with the same tag gives back the query,
\* the same segments in the same order, in MediaCtrl.goto and in Browse.
C1_Involution ==
  \A h \in {"goto", "browse"} : TwiceSame(h) => Current(h) = FirstOfTwo.before

\* C1 as amended: toggling twice with the same tag gives back the query
\* when the tag was absent before the first toggle; in MediaCtrl.goto a tag
\* that was present once ends up moved to the end, and of a tag that was
\* present several times the first two occurrences are gone.
C1_InvolutionWhenAbsent ==
  /\ \A h \in {"goto", "browse"} :
       (TwiceSame(h) /\ AbsentBefore(FirstOfTwo)) => Current(h) = FirstOfTwo.before
  /\ (TwiceSame("goto") /\ ~AbsentBefore(FirstOfTwo)) =>
       LET q == FirstOfTwo.before
           t == FirstOfTwo.t
       IN  activeTags = IF Count(q, t) = 1
                        THEN Append(RemoveFirst(q, t), t)
                        ELSE RemoveFirst(RemoveFirst(q, t), t)

\* a tag that was absent is toggled in and out again by Browse
C1_Witness ==
  /\ TwiceSame("browse") /\ AbsentBefore(FirstOfTwo)
  /\ QueryOf(FirstOfTwo.before) # <<>>
  /\ path = FirstOfTwo.before

\* C2: a toggle removes exactly the first occurrence of a tag that occurs in
\* the query and appends a tag that does not occur, in MediaCtrl.goto and in
\* the links built by hrefForTag.
C2_AppendOrRemoveFirst ==
  \A i \in 1..Len(tlog) :
    LET e == tlog[i]
        after == IF \E j \in (i + 1)..Len(tlog) : tlog[j].h = e.h
                 THEN tlog[Min({j \in (i + 1)..Len(tlog) : tlog[j].h = e.h})].before
                 ELSE Current(e.h)
        q == IF e.h = "goto" THEN e.before ELSE QueryOf(e.before)
        r == IF e.h = "goto" THEN after ELSE QueryOf(after)
    IN  e.h \in {"goto", "view"} =>
          r = IF Occurs(q, e.t) THEN RemoveFirst(q, e.t) ELSE Append(q, e.t)

---------------------------------------------------------------------------
(* Paging *)

Null == -1    \* JavaScript null for a cursor or for the asset under it

DefaultFetchLimit == 10
DefaultLoadLimit  == 32

QueryNames == {"q1", "q2"}
FetchArgs  == {0, 1, 2}     \* 0 stands for a call without a limit
LoadArgs   == {1, 2, DefaultLoadLimit}

\* the server answers a page request with a slice of its ordered list
Page(list, offset, limit) ==
  SubSeq(list, offset + 1, IF offset + limit < Len(list) THEN offset + limit ELSE Len(list))

RemoveAt(net, i) == SubSeq(net, 1, i - 1) \o SubSeq(net, i + 1, Len(net))

\* Thumbs.setCursor with a numeric index
setCursor(t, idx) ==
  IF Len(t.assets) = 0 THEN [t EXCEPT !.asset = Null, !.cursor = Null]
  ELSE IF 0 <= idx /\ idx < Len(t.assets)
       THEN [t EXCEPT !.asset = t.assets[idx + 1], !.cursor = idx]
       ELSE t

\* Thumbs.setQuery
setQuery(query) ==
  /\ app = "editing"
  /\ query # thumbs.query
  /\ thumbs' = [query |-> query, assets |-> <<>>, asset |-> Null, cursor |-> Null,
                loading |-> FALSE, exhausted |-> FALSE, selected |-> {},
                superseded |-> thumbs.superseded \/ tnet # <<>>]
  /\ UNCHANGED <<tnet, scope, mnet, catalog, app>>
  /\ UNCHANGED <<toggleVars, editVars, photoVars, laterVars>>

\* fetch as it would be if it asked for the first page every time
fetchRequestFromStart(t, limit) ==
  [query |-> t.query, offset |-> 0, limit |-> limit]

\* the request Thumbs.fetch sends, with the limit its doneHandler closes over
fetchRequest(t, limit) ==
  [query |-> t.query, offset |-> Len(t.assets), limit |-> limit]

fetchLimit(arg) == IF arg = 0 THEN DefaultFetchLimit ELSE arg

\* Thumbs.fetch
fetch(arg) ==
  /\ app = "editing"
  /\ thumbs.query # "none"
  /\ ~(thumbs.loading \/ thumbs.exhausted)
  /\ fetchLimit(arg) > 0
  /\ Len(tnet) < MaxInFlight
  /\ tnet' = Append(tnet, fetchRequest(thumbs, fetchLimit(arg)))
  /\ thumbs' = [thumbs EXCEPT !.loading = TRUE]
  /\ UNCHANGED <<scope, mnet, catalog, app>>
  /\ UNCHANGED <<toggleVars, editVars, photoVars, laterVars>>

\* Thumbs.handleScroll, when the bottom of the list is near
handleScroll ==
  /\ ~(thumbs.exhausted \/ thumbs.loading)
  /\ fetch(0)

\* the doneHandler as it would be if a full page ended the paging
fetchExhaustedAtLimit(got, limit) == Len(got) <= limit

fetchExhausted(got, limit) == Len(got) < limit

\* Thumbs.fetch doneHandler; it fetches again when the list does not fill the window
doneHandler(i, again) ==
  /\ i \in 1..Len(tnet)
  /\ LET req == tnet[i]
         got == Page(catalog[req.query], req.offset, req.limit)
         t1 == [thumbs EXCEPT !.loading = FALSE,
                              !.exhausted = fetchExhausted(got, req.limit),
                              !.assets = thumbs.assets \o got]
         t2 == IF Len(t1.assets) > 0 /\ t1.cursor = Null THEN setCursor(t1, 0) ELSE t1
         refetch == again /\ ~(t2.loading \/ t2.exhausted)
     IN  /\ again => refetch
         /\ thumbs' = IF refetch THEN [t2 EXCEPT !.loading = TRUE] ELSE t2
         /\ tnet' = IF refetch
                    THEN Append(RemoveAt(tnet, i), fetchRequest(t2, req.limit))
                    ELSE RemoveAt(tnet, i)
  /\ UNCHANGED <<scope, mnet, catalog, app>>
  /\ UNCHANGED <<toggleVars, editVars, photoVars, laterVars>>

\* Thumbs.fetch fail handler
failHandler(i) ==
  /\ i \in 1..Len(tnet)
  /\ thumbs' = [thumbs EXCEPT !.loading = FALSE]
  /\ tnet' = RemoveAt(tnet, i)
  /\ UNCHANGED <<scope, mnet, catalog, app>>
  /\ UNCHANGED <<toggleVars, editVars, photoVars, laterVars>>

\* Photo.query: the offset and the limit reach the server only when positive
photoQuery(q) ==
  [offset |-> IF q.offset > 0 THEN q.offset ELSE 0, limit |-> q.limit, n |-> q.limit]

\* MediaCtrl.loadPhotos
loadPhotos(n) ==
  /\ app = "media"
  /\ ~scope.exhausted
  /\ ~scope.loading
  /\ scope' = [scope EXCEPT !.loading = TRUE]
  /\ mnet' = Append(mnet, photoQuery([offset |-> Len(scope.photos), limit |-> n]))
  /\ UNCHANGED <<thumbs, tnet, catalog, app>>
  /\ UNCHANGED <<toggleVars, editVars, photoVars, laterVars>>

\* the scroll directive evaluates its expression, loadPhotos(), near the bottom
scroll ==
  /\ app = "media"
  /\ loadPhotos(DefaultLoadLimit)

loadExhausted(photos, n) == Len(photos) < n

\* recomputeSelected reads the photo of every active id: the photo under the
\* cursor when nothing is selected (activeIds), else getPhoto(id).meta of every
\* selected id; a missing photo is undefined or null and the read raises
recomputeSelectedRaises(photos, cursor, ids) ==
  IF ids = {} THEN ~(cursor >= 0 /\ cursor < Len(photos))
  ELSE \E id \in ids : ListIndexOf(photos, id) < 0

\* the callback loadPhotos hands to Photo.query; when recomputeSelected raises,
\* the two assignments after it are not reached
photosLoaded(i) ==
  /\ i \in 1..Len(mnet)
  /\ LET req == mnet[i]
         photos == Page(catalog["q1"], req.offset, req.limit)
         all == scope.photos \o photos
     IN  scope' = IF scope.cursor < 0 /\ recomputeSelectedRaises(all, 0, selectedIds)
                  THEN [scope EXCEPT !.photos = all, !.cursor = 0]
                  ELSE [scope EXCEPT !.photos = all,
                                     !.cursor = IF scope.cursor < 0 THEN 0 ELSE scope.cursor,
                                     !.exhausted = loadExhausted(photos, req.n),
                                     !.loading = FALSE]
  /\ mnet' = RemoveAt(mnet, i)
  /\ UNCHANGED <<thumbs, tnet, catalog, app>>
  /\ UNCHANGED <<toggleVars, editVars, photoVars, laterVars>>

\* a failed request of Photo.query has no handler
photosFailed(i) ==
  /\ i \in 1..Len(mnet)
  /\ mnet' = RemoveAt(mnet, i)
  /\ UNCHANGED <<thumbs, tnet, scope, catalog, app>>
  /\ UNCHANGED <<toggleVars, editVars, photoVars, laterVars>>

Ids(base, n) == [i \in 1..n |-> base + i]

InitPager ==
  /\ thumbs = [query |-> "none", assets |-> <<>>, asset |-> Null, cursor |-> Null,
               loading |-> FALSE, exhausted |-> FALSE, selected |-> {},
               superseded |-> FALSE]
  /\ tnet = <<>>
  /\ scope = [photos |-> <<>>, loading |-> FALSE, exhausted |-> FALSE, cursor |-> -1]
  /\ mnet = <<>>
  /\ app \in {"editing", "media"}
  /\ \E n1 \in 0..MaxAssets, n2 \in 0..1 :
       catalog = [q \in QueryNames |-> IF q = "q1" THEN Ids(0, n1) ELSE Ids(10, n2)]

NextThumbs ==
  \/ \E q \in QueryNames : setQuery(q)
  \/ \E a \in FetchArgs : fetch(a)
  \/ handleScroll
  \/ \E i \in 1..Len(tnet), again \in BOOLEAN : doneHandler(i, again)
  \/ \E i \in 1..Len(tnet) : failHandler(i)

NextMedia ==
  \/ \E n \in LoadArgs : loadPhotos(n)
  \/ scroll
  \/ \E i \in 1..Len(mnet) : photosLoaded(i)
  \/ \E i \in 1..Len(mnet) : photosFailed(i)

\* a list is the first entries of another, in the same order
IsPrefix(list, whole) ==
  Len(list) <= Len(whole) /\ list = SubSeq(whole, 1, Len(list))

\* no request of Thumbs was in flight when the query was changed
OneQuery == ~thumbs.superseded

\* C3: every page request in flight carries the number of assets loaded as
\* its offset, the loaded list is the server's list up to there, each asset
\* once and in the server's order, and once paging has ended it is the
\* whole list of the N matching assets.
C3_PagingComplete ==
  /\ OneQuery /\ thumbs.query # "none" =>
       /\ \A i \in 1..Len(tnet) : tnet[i].offset = Len(thumbs.assets)
       /\ IsPrefix(thumbs.assets, catalog[thumbs.query])
       /\ thumbs.exhausted => thumbs.assets = catalog[thumbs.query]
  /\ \A i \in 1..Len(mnet) : mnet[i].offset = Len(scope.photos)
  /\ IsPrefix(scope.photos, catalog["q1"])
  /\ scope.exhausted => scope.photos = catalog["q1"]

\* Thumbs has loaded all assets of the query, page by page
C3_Witness ==
  /\ OneQuery /\ thumbs.exhausted /\ ~thumbs.loading
  /\ Len(thumbs.assets) = MaxAssets /\ thumbs.assets = catalog[thumbs.query]

NoNewRequest(net, after) ==
  /\ Len(after) <= Len(net)
  /\ \A j \in 1..Len(after) : \E k \in 1..Len(net) : net[k] = after[j]

\* C4: a page response sets exhausted exactly when it holds fewer assets
\* than the limit of its request; once exhausted is set it stays set and no
\* step sends another page request, as long as the query is the same.
C4_Exhaustion ==
  [][ /\ \A i \in 1..Len(tnet) : \A again \in BOOLEAN :
           doneHandler(i, again) =>
             (thumbs'.exhausted <=>
                Len(thumbs'.assets) - Len(thumbs.assets) < tnet[i].limit)
      /\ \A i \in 1..Len(mnet) :
           photosLoaded(i) =>
             (scope'.exhausted <=>
                Len(scope'.photos) - Len(scope.photos) < mnet[i].limit)
      /\ (OneQuery /\ thumbs.exhausted /\ thumbs'.query = thumbs.query) =>
           (thumbs'.exhausted /\ NoNewRequest(tnet, tnet'))
      /\ scope.exhausted => (scope'.exhausted /\ NoNewRequest(mnet, mnet'))
    ]_vars

\* MediaCtrl is exhausted after a last page shorter than its limit
C4_Witness ==
  /\ scope.exhausted /\ ~scope.loading /\ mnet = <<>>
  /\ Len(scope.photos) = MaxAssets

---------------------------------------------------------------------------
(* The filter pipeline of an asset and the editor *)

None == "null"    \* JavaScript null for an editor mode

NoData == [unit |-> "none", value |-> 0]
Degrees(v) == [unit |-> "degrees", value |-> v]
Percent(v) == [unit |-> "percent", value |-> v]
CropBox == [unit |-> "box", value |-> 0]

Filter(name, data) == [filter |-> name, data |-> data]

\* one kind for each case of startRange and of commit
RangeKinds == {"brightness", "hue", "rotate"}

\* the attributes Editor.startRange gives the range input
RangeAttrs(attribute) ==
  IF attribute = "rotate" THEN [min |-> -180, max |-> 180, value |-> 0]
  ELSE IF attribute = "hue" THEN [min |-> 0, max |-> 360, value |-> 0]
  ELSE [min |-> 0, max |-> 200, value |-> 100]

\* the position of the range input the model moves it to
RangeValues(attribute) == {RangeAttrs(attribute).max}

\* Asset.$ajax requests
Post(name, data) == [method |-> "POST", filter |-> name, index |-> -1, data |-> data]
Delete(name, index) == [method |-> "DELETE", filter |-> name, index |-> index, data |-> NoData]
Put(tag) == [method |-> "PUT", filter |-> tag, index |-> -1, data |-> NoData]
Reply(filters) == [method |-> "REPLY", filters |-> filters]

\* Asset.addFilter, Asset.removeFilter, Asset.incTag
addFilter(name, data) == <<Post(name, data)>>
removeFilter(name, index) == <<Delete(name, index)>>
incTag(tag) == <<Put(tag)>>

\* undoLastFilter as it would be with the length as the index
undoLastFilterOffByOne(filters) ==
  LET L == Len(filters)
  IN  IF L > 0 THEN removeFilter(filters[L].filter, L) ELSE <<>>

\* Asset.undoLastFilter: the requests it sends for a record with these filters
undoLastFilter(filters) ==
  LET L == Len(filters)
  IN  IF L > 0 THEN removeFilter(filters[L].filter, L - 1) ELSE <<>>

\* cancel as it would be if it left the range preview running
cancelledButRanging(e) == [e EXCEPT !.isTagging = FALSE, !.isCropping = FALSE]

\* Editor.cancel
cancelled(e) ==
  [e EXCEPT !.isTagging = FALSE, !.isCropping = FALSE, !.isRanging = None]

\* Editor.commit: the requests it sends
committed(e) ==
  LET tagging == IF e.isTagging THEN incTag("tag") ELSE <<>>
      cropping == IF e.isCropping THEN addFilter("crop", CropBox) ELSE <<>>
      e1 == IF e.isCropping THEN cancelled(e) ELSE e
      data == IF e1.isRanging = "rotate" \/ e1.isRanging = "hue"
              THEN Degrees(e1.range) ELSE Percent(e1.range)
      ranging == IF e1.isRanging # None THEN addFilter(e1.isRanging, data) ELSE <<>>
  IN  tagging \o cropping \o ranging

\* Editor.commit: the editor it leaves
afterCommit(e) == IF e.isCropping \/ e.isRanging # None THEN cancelled(e) ELSE e

NoEditor == [isTagging |-> FALSE, isCropping |-> FALSE, isRanging |-> None, range |-> 0]

\* the record of the last operation and of the operations so far
Logs(op, sent, keep) ==
  [op |-> op,
   sent |-> IF op \in {"undoLastFilter", "commit"} THEN sent ELSE <<>>,
   was |-> IF op = "commit" THEN editor ELSE NoEditor,
   rec |-> IF op = "undoLastFilter" THEN asset.filters ELSE <<>>,
   calls |-> elog.calls + (IF op \in {"addFilter", "removeFilter", "undoLastFilter"}
                           THEN 1 ELSE 0),
   adds |-> elog.adds + (IF op = "addFilter" THEN 1 ELSE 0),
   commits |-> elog.commits + (IF op = "commit" THEN 1 ELSE 0),
   undos |-> elog.undos + (IF op = "undoLastFilter" THEN 1 ELSE 0),
   others |-> elog.others \/ (sent # <<>> /\ op # "undoLastFilter"),
   start |-> elog.start,
   base |-> IF op = "startRange" THEN <<server, asset.filters, anet>>
            ELSE IF keep THEN elog.base ELSE <<>>]

NoLog(filters) ==
  [op |-> "edit", sent |-> <<>>, was |-> NoEditor, rec |-> <<>>, calls |-> 0, adds |-> 0,
   commits |-> 0, undos |-> 0, others |-> FALSE, start |-> filters, base |-> <<>>]

\* a call of the asset that sends these requests
Sends(op, sent) ==
  /\ elog.calls < MaxCalls
  /\ op = "addFilter" => elog.adds < MaxAdds
  /\ Len(anet) + Len(sent) <= MaxPending
  /\ anet' = anet \o sent
  /\ elog' = Logs(op, sent, FALSE)

\* the keys and buttons that add a filter at once
rotate(degrees) ==
  /\ Sends("addFilter", addFilter("rotate", Degrees(degrees)))
  /\ UNCHANGED <<asset, server, editor, toggleVars, pagerVars, photoVars, laterVars>>

hflip ==
  /\ Sends("addFilter", addFilter("hflip", NoData))
  /\ UNCHANGED <<asset, server, editor, toggleVars, pagerVars, photoVars, laterVars>>

vflip ==
  /\ Sends("addFilter", addFilter("vflip", NoData))
  /\ UNCHANGED <<asset, server, editor, toggleVars, pagerVars, photoVars, laterVars>>

autocontrast(percent) ==
  /\ Sends("addFilter", addFilter("autocontrast", Percent(percent)))
  /\ UNCHANGED <<asset, server, editor, toggleVars, pagerVars, photoVars, laterVars>>

\* a click on a filter of the rendered record
clickFilter(i) ==
  /\ i \in 1..Len(asset.filters)
  /\ Sends("removeFilter", removeFilter(asset.filters[i].filter, i - 1))
  /\ UNCHANGED <<asset, server, editor, toggleVars, pagerVars, photoVars, laterVars>>

\* the z key
undo ==
  /\ Sends("undoLastFilter", undoLastFilter(asset.filters))
  /\ UNCHANGED <<asset, server, editor, toggleVars, pagerVars, photoVars, laterVars>>

\* Editor.startRange, with the input event it triggers
startRange(attribute) ==
  /\ editor' = [editor EXCEPT !.isRanging = attribute, !.range = RangeAttrs(attribute).value]
  /\ elog' = Logs("startRange", <<>>, FALSE)
  /\ UNCHANGED <<asset, server, anet>>
  /\ UNCHANGED <<toggleVars, pagerVars, photoVars, laterVars>>

\* the input handler of the range input: it restyles the image only
rangeInput(value) ==
  /\ editor.isRanging # None
  /\ value # editor.range
  /\ editor' = [editor EXCEPT !.range = value]
  /\ elog' = Logs("input", <<>>, TRUE)
  /\ UNCHANGED <<asset, server, anet>>
  /\ UNCHANGED <<toggleVars, pagerVars, photoVars, laterVars>>

\* Editor.startCrop
startCrop ==
  /\ editor' = [editor EXCEPT !.isCropping = TRUE]
  /\ elog' = Logs("startCrop", <<>>, FALSE)
  /\ UNCHANGED <<asset, server, anet>>
  /\ UNCHANGED <<toggleVars, pagerVars, photoVars, laterVars>>

\* Editor.startTagging
startTagging ==
  /\ editor' = [editor EXCEPT !.isTagging = TRUE]
  /\ elog' = Logs("startTagging", <<>>, FALSE)
  /\ UNCHANGED <<asset, server, anet>>
  /\ UNCHANGED <<toggleVars, pagerVars, photoVars, laterVars>>

\* Editor.cancel
cancel ==
  /\ editor' = cancelled(editor)
  /\ elog' = Logs("cancel", <<>>, elog.op \in {"startRange", "input"})
  /\ UNCHANGED <<asset, server, anet>>
  /\ UNCHANGED <<toggleVars, pagerVars, photoVars, laterVars>>

\* Editor.commit
commit ==
  /\ elog.commits < MaxCommits
  /\ Len(anet) + Len(committed(editor)) <= MaxPending
  /\ anet' = anet \o committed(editor)
  /\ editor' = afterCommit(editor)
  /\ elog' = Logs("commit", committed(editor), FALSE)
  /\ UNCHANGED <<asset, server>>
  /\ UNCHANGED <<toggleVars, pagerVars, photoVars, laterVars>>

\* the server's removal of a filter by kind and index
removable(filters, req) ==
  /\ 0 <= req.index /\ req.index < Len(filters)
  /\ filters[req.index + 1].filter = req.filter

\* the server handles a request: it answers with the record, or with an error
serve(i) ==
  /\ i \in 1..Len(anet)
  /\ anet[i].method # "REPLY"
  /\ LET req == anet[i]
         accepted == req.method = "DELETE" => removable(server, req)
         filters == IF req.method = "POST"
                    THEN Append(server, Filter(req.filter, req.data))
                    ELSE IF req.method = "DELETE" /\ accepted
                    THEN Splice(server, req.index)
                    ELSE server
     IN  /\ server' = filters
         /\ anet' = IF accepted
                    THEN RemoveAt(anet, i) \o <<Reply(filters)>>
                    ELSE RemoveAt(anet, i)
  /\ elog' = Logs("answer", <<>>, FALSE)
  /\ UNCHANGED <<asset, editor>>
  /\ UNCHANGED <<toggleVars, pagerVars, photoVars, laterVars>>

\* Asset.$ajax success
ajaxSuccess(i) ==
  /\ i \in 1..Len(anet)
  /\ anet[i].method = "REPLY"
  /\ asset' = [asset EXCEPT !.filters = anet[i].filters]
  /\ anet' = RemoveAt(anet, i)
  /\ elog' = Logs("answer", <<>>, FALSE)
  /\ UNCHANGED <<server, editor>>
  /\ UNCHANGED <<toggleVars, pagerVars, photoVars, laterVars>>

StartFilters == {Filter("hflip", NoData), Filter("rotate", Degrees(90))}

InitEdit ==
  /\ \E filters \in SeqsUpTo(StartFilters, MaxFilters) :
       /\ server = filters
       /\ asset = [filters |-> filters]
       /\ elog = NoLog(filters)
  /\ anet = <<>>
  /\ editor = NoEditor

InitEditor ==
  /\ \E filters \in SeqsUpTo({Filter("hflip", NoData)}, MaxShown) :
       /\ server = filters
       /\ asset = [filters |-> filters]
       /\ elog = NoLog(filters)
  /\ anet = <<>>
  /\ editor = NoEditor

\* the operations on the pipeline of the asset
NextPipeline ==
  \/ \E d \in {-90, 90} : rotate(d)
  \/ hflip
  \/ vflip
  \/ autocontrast(1)
  \/ \E i \in 1..Len(asset.filters) : clickFilter(i)
  \/ undo
  \/ \E i \in 1..Len(anet) : serve(i)
  \/ \E i \in 1..Len(anet) : ajaxSuccess(i)

\* the operations of the editor
NextEditor ==
  \/ \E k \in RangeKinds : startRange(k)
  \/ \E k \in RangeKinds : \E v \in RangeValues(k) :
       editor.isRanging = k /\ rangeInput(v)
  \/ startCrop
  \/ startTagging
  \/ cancel
  \/ commit
  \/ \E i \in 1..Len(anet) : serve(i)
  \/ \E i \in 1..Len(anet) : ajaxSuccess(i)

\* C5: for an asset that starts with the filters [F1, F2, F3], two calls of
\* undoLastFilter and nothing else leave the pipeline equal to [F1] once all
\* requests are answered, whatever the order of calls and responses.
C5_UndoTwice ==
  (Len(elog.start) = 3 /\ elog.undos = 2 /\ ~elog.others /\ anet = <<>>) =>
    (server = <<elog.start[1]>> /\ asset.filters = <<elog.start[1]>>)

\* C6: undoLastFilter on a record with L > 0 filters sends one request, the
\* removal of index L-1 with the kind of the last filter; on a record without
\* filters it sends nothing; it leaves the record as it is.
C6_UndoRemovesLast ==
  elog.op = "undoLastFilter" =>
    /\ asset.filters = elog.rec
    /\ elog.sent = IF Len(elog.rec) > 0
                   THEN <<Delete(elog.rec[Len(elog.rec)].filter, Len(elog.rec) - 1)>>
                   ELSE <<>>
    /\ SubSeq(anet, Len(anet) - Len(elog.sent) + 1, Len(anet)) = elog.sent

\* undoLastFilter has just been called on a record of three filters
C6_Witness ==
  /\ elog.op = "undoLastFilter" /\ Len(elog.rec) = MaxFilters /\ Len(anet) = 1
  /\ anet[1].method = "DELETE"

\* C7: from startRange on, as long as only the range value is changed, no
\* request is sent and the filters held by the server and by the client are
\* those from before the preview; cancel then ends the preview and leaves
\* them so.
C7_PreviewIsolation ==
  /\ elog.base # <<>> =>
       /\ elog.op \in {"startRange", "input", "cancel"}
       /\ elog.op # "cancel" => editor.isRanging # None
       /\ elog.sent = <<>>
       /\ server = elog.base[1] /\ asset.filters = elog.base[2] /\ anet = elog.base[3]
  /\ elog.op = "cancel" => editor.isRanging = None

\* a preview whose value was moved has been cancelled
C7_Witness ==
  /\ elog.op = "cancel" /\ elog.base # <<>> /\ Len(elog.base[1]) > 0
  /\ editor.range = RangeAttrs("brightness").max

\* C8: a commit made while a range preview is active sends exactly one
\* addFilter request, for the ranged kind with the value of the preview, in
\* degrees for rotate and hue and in percent otherwise, and ends the preview.
C8_CommitSendsPreview ==
  (elog.op = "commit" /\ elog.was.isRanging # None) =>
    LET posts == {i \in 1..Len(elog.sent) : elog.sent[i].method = "POST"}
        value == elog.was.range
        data == IF elog.was.isRanging \in {"rotate", "hue"}
                THEN Degrees(value) ELSE Percent(value)
    IN  /\ Cardinality(posts) = 1
        /\ \A i \in posts : elog.sent[i] = Post(elog.was.isRanging, data)
        /\ editor.isRanging = None

---------------------------------------------------------------------------
(* The tags of a photo *)

PhotoTags == {"x", "y"}

\* Photo.tagIndex and Photo.hasTag
tagIndex(tags, tag) == ListIndexOf(tags, tag)
hasTag(tags, tag) == 0 <= tagIndex(tags, tag)

\* toggleTag as it would be if it never removed a tag
toggleTagListPushOnly(tags, tag) == Append(tags, tag)

\* Photo.toggleTag, Photo.setTag, Photo.clearTag: the list they leave
toggleTagList(tags, tag) ==
  LET i == tagIndex(tags, tag)
  IN  IF i >= 0 THEN Splice(tags, i) ELSE Append(tags, tag)

\* setTag as it would be without the test of hasTag
setTagListUnchecked(tags, tag) == Append(tags, tag)

setTagList(tags, tag) == IF ~hasTag(tags, tag) THEN Append(tags, tag) ELSE tags

clearTagList(tags, tag) ==
  LET i == tagIndex(tags, tag)
  IN  IF i >= 0 THEN Splice(tags, i) ELSE tags

\* Photo.toggleTag, Photo.setTag, Photo.clearTag: whether they call save
toggleTagSaves(tags, tag) == TRUE
setTagSaves(tags, tag) == ~hasTag(tags, tag)
clearTagSaves(tags, tag) == tagIndex(tags, tag) >= 0

\* Photo.save posts the meta record as it is now
save(tags) == <<[type |-> "save", user_tags |-> tags]>>

PhotoCall(op, tag, after, saves) ==
  /\ saves => Len(pnet) < MaxSaves
  /\ photo' = [photo EXCEPT !.user_tags = after]
  /\ pnet' = IF saves THEN pnet \o save(after) ELSE pnet
  /\ phlog' = (IF phlog = <<>> THEN <<>> ELSE <<phlog[Len(phlog)]>>) \o
              <<[op |-> op, tag |-> tag, before |-> photo.user_tags, after |-> after,
                 sent |-> IF saves THEN 1 ELSE 0]>>
  /\ wanted' = IF Occurs(after, tag) /\ ~Occurs(photo.user_tags, tag) THEN wanted \cup {tag}
               ELSE IF ~Occurs(after, tag) /\ Occurs(photo.user_tags, tag) THEN wanted \ {tag}
               ELSE wanted

toggleTag(tag) ==
  /\ PhotoCall("toggleTag", tag, toggleTagList(photo.user_tags, tag),
               toggleTagSaves(photo.user_tags, tag))
  /\ UNCHANGED <<pserver, toggleVars, pagerVars, editVars, laterVars>>

setTag(tag) ==
  /\ PhotoCall("setTag", tag, setTagList(photo.user_tags, tag),
               setTagSaves(photo.user_tags, tag))
  /\ UNCHANGED <<pserver, toggleVars, pagerVars, editVars, laterVars>>

clearTag(tag) ==
  /\ PhotoCall("clearTag", tag, clearTagList(photo.user_tags, tag),
               clearTagSaves(photo.user_tags, tag))
  /\ UNCHANGED <<pserver, toggleVars, pagerVars, editVars, laterVars>>

\* the server stores the posted meta record and answers with what it stored
photoSaved(i) ==
  /\ i \in 1..Len(pnet)
  /\ pnet[i].type = "save"
  /\ pserver' = pnet[i].user_tags
  /\ pnet' = RemoveAt(pnet, i) \o <<[type |-> "saved", user_tags |-> pnet[i].user_tags]>>
  /\ UNCHANGED <<photo, phlog, wanted>>
  /\ UNCHANGED <<toggleVars, pagerVars, editVars, laterVars>>

\* the callback of Photo.save replaces the meta record by the answer
saveDone(i) ==
  /\ i \in 1..Len(pnet)
  /\ pnet[i].type = "saved"
  /\ photo' = [photo EXCEPT !.user_tags = pnet[i].user_tags]
  /\ pnet' = RemoveAt(pnet, i)
  /\ phlog' = <<>>
  /\ UNCHANGED <<pserver, wanted>>
  /\ UNCHANGED <<toggleVars, pagerVars, editVars, laterVars>>

NoDuplicates(list) == \A i, j \in 1..Len(list) : list[i] = list[j] => i = j

InitPhoto ==
  /\ \E tags \in SeqsUpTo(PhotoTags, Cardinality(PhotoTags)) :
       /\ NoDuplicates(tags)
       /\ photo = [user_tags |-> tags]
       /\ pserver = tags
       /\ wanted = {tags[i] : i \in 1..Len(tags)}
  /\ pnet = <<>>
  /\ phlog = <<>>

NextPhoto ==
  \/ \E t \in PhotoTags : toggleTag(t)
  \/ \E t \in PhotoTags : setTag(t)
  \/ \E t \in PhotoTags : clearTag(t)
  \/ \E i \in 1..Len(pnet) : photoSaved(i)
  \/ \E i \in 1..Len(pnet) : saveDone(i)

LastCall == phlog[Len(phlog)]

\* the last two calls of the photo were the same call with the same tag,
\* with no answer of the server between them
SameCallTwice(op) ==
  /\ Len(phlog) = 2
  /\ phlog[1].op = op /\ phlog[2].op = op
  /\ phlog[1].tag = phlog[2].tag

\* C9: setTag of a tag the photo has and clearTag of a tag it does not have
\* change nothing and send no save request; a second setTag or clearTag of
\* the same tag leaves the list the first one left.
C9_TagIdempotent ==
  /\ Len(phlog) > 0 =>
       /\ (LastCall.op = "setTag" /\ Occurs(LastCall.before, LastCall.tag)) =>
            (LastCall.after = LastCall.before /\ LastCall.sent = 0)
       /\ (LastCall.op = "clearTag" /\ ~Occurs(LastCall.before, LastCall.tag)) =>
            (LastCall.after = LastCall.before /\ LastCall.sent = 0)
       /\ photo.user_tags = LastCall.after
  /\ \A op \in {"setTag", "clearTag"} :
       SameCallTwice(op) => (phlog[2].after = phlog[1].after /\ phlog[2].sent = 0)

\* clearTag of a tag the photo had has been called twice
C9_Witness ==
  /\ SameCallTwice("clearTag")
  /\ Occurs(phlog[1].before, phlog[1].tag)
  /\ Len(phlog[1].before) > 1

\* C10: the user_tags of the photo never hold a tag twice.
C10_NoDuplicateTags == NoDuplicates(photo.user_tags)

\* the photo holds every tag after calls and answers
C10_Witness ==
  /\ Len(photo.user_tags) = Cardinality(PhotoTags)
  /\ Len(phlog) = 2 /\ phlog[2].op = "toggleTag" /\ phlog[2].sent = 1
  /\ Len(pnet) > 0

\* C21: when every save and every answer of the photo has arrived, the
\* record of the server and the tag list of the client both hold exactly the
\* tags that the calls have set and not cleared since: no call is lost.
C21_NoLostUpdate ==
  pnet = <<>> =>
    \A t \in PhotoTags :
      /\ Occurs(pserver, t) <=> t \in wanted
      /\ Occurs(photo.user_tags, t) <=> t \in wanted

---------------------------------------------------------------------------
(* Batch operations on the active assets *)

BatchIds == {1, 2}

BatchClients == {"PhotosCtrl", "MediaCtrl", "TagSelect"}

Range(list) == {list[i] : i \in 1..Len(list)}

\* the ids of a set in the order a loop visits them
RECURSIVE IdList(_)
IdList(S) == IF S = {} THEN <<>> ELSE <<Min(S)>> \o IdList(S \ {Min(S)})

\* the ids a batch works on: the selection, or else the asset under the cursor
activeIds(p) == IF p.selected = {} THEN {p.cursorId} ELSE p.selected

Msg(type, id, tag, tags) == [type |-> type, id |-> id, tag |-> tag, user_tags |-> tags]

\* the saves of one photo, as requests in flight
Addressed(id, saves) ==
  [i \in 1..Len(saves) |-> Msg(saves[i].type, id, "", saves[i].user_tags)]

\* p.setTag(t) for t in add: the list it leaves and the saves it sends
RECURSIVE setEach(_, _)
setEach(tags, add) ==
  IF add = <<>> THEN [tags |-> tags, sent |-> <<>>]
  ELSE LET now == setTagList(tags, Head(add))
           first == IF setTagSaves(tags, Head(add)) THEN save(now) ELSE <<>>
           rest == setEach(now, Tail(add))
       IN  [tags |-> rest.tags, sent |-> first \o rest.sent]

\* p.clearTag(t) for t in remove: the list it leaves and the saves it sends
RECURSIVE clearEach(_, _)
clearEach(tags, remove) ==
  IF remove = <<>> THEN [tags |-> tags, sent |-> <<>>]
  ELSE LET now == clearTagList(tags, Head(remove))
           first == IF clearTagSaves(tags, Head(remove)) THEN save(now) ELSE <<>>
           rest == clearEach(now, Tail(remove))
       IN  [tags |-> rest.tags, sent |-> first \o rest.sent]

\* the loop of tagSelected over the ids: the photos it leaves and the saves it sends
RECURSIVE tagEach(_, _, _, _)
tagEach(ids, photos, add, remove) ==
  IF ids = <<>> THEN [album |-> photos, sent |-> <<>>]
  ELSE LET id == Head(ids)
           added == setEach(photos[id], add)
           cleared == clearEach(added.tags, remove)
           rest == tagEach(Tail(ids), [photos EXCEPT ![id] = cleared.tags], add, remove)
       IN  [album |-> rest.album,
            sent |-> Addressed(id, added.sent \o cleared.sent) \o rest.sent]

\* The parameter list of tagSelected, (add: [], remove: []), is an object
\* pattern whose two targets are empty array patterns: it names no variable,
\* and add and remove in the body are free names. What they hold is up to the
\* build: nothing, and the first loop raises, or the lists of the caller.
tagSelectedArgs(add, remove) ==
  {[bound |-> FALSE, add |-> <<>>, remove |-> <<>>],
   [bound |-> TRUE, add |-> add, remove |-> remove]}

BatchLog(op, ids, add, remove, sent) ==
  [op |-> op, ids |-> ids, add |-> add, remove |-> remove, before |-> album,
   sent |-> sent, calls |-> blog.calls + 1]

\* a batch operation of a client that leaves these assets and sends these requests
Batch(client, op, add, remove, done) ==
  /\ picked.client = client
  /\ blog.calls < MaxBatchCalls
  /\ Len(bnet) + Len(done.sent) <= MaxBatchPending
  /\ album' = done.album
  /\ bnet' = bnet \o done.sent
  /\ blog' = BatchLog(op, activeIds(picked), add, remove, done.sent)

\* PhotosCtrl.tagSelected
tagSelected(add, remove) ==
  /\ \E args \in tagSelectedArgs(add, remove) :
       Batch("PhotosCtrl", "tagSelected", add, remove,
             IF args.bound
             THEN tagEach(IdList(activeIds(picked)), album, args.add, args.remove)
             ELSE [album |-> album, sent |-> <<>>])
  /\ UNCHANGED <<picked, bserver>>
  /\ UNCHANGED <<toggleVars, pagerVars, editVars, photoVars, deleteVars, tagVars, moreVars>>

\* the loop of the tag form over the active ids: getPhoto(id).setTag tag
RECURSIVE setTagEach(_, _, _)
setTagEach(ids, photos, tag) ==
  IF ids = <<>> THEN [album |-> photos, sent |-> <<>>]
  ELSE LET id == Head(ids)
           added == setEach(photos[id], <<tag>>)
           rest == setTagEach(Tail(ids), [photos EXCEPT ![id] = added.tags], tag)
       IN  [album |-> rest.album, sent |-> Addressed(id, added.sent) \o rest.sent]

\* MediaCtrl: the submit handler of the tag form, for a tag that is not empty
tagFormSubmit(tag) ==
  /\ Batch("MediaCtrl", "tagForm", <<tag>>, <<>>,
           setTagEach(IdList(activeIds(picked)), album, tag))
  /\ UNCHANGED <<picked, bserver>>
  /\ UNCHANGED <<toggleVars, pagerVars, editVars, photoVars, deleteVars, tagVars, moreVars>>

\* TagSelect.changeTags: one request for each asset, POST to add and DELETE to remove
changeRequests(ids, method, tag) ==
  [i \in 1..Len(ids) |-> Msg(method, ids[i], tag, <<>>)]

changeTags(action, tag) ==
  /\ Batch("TagSelect", action,
           IF action = "remove-value" THEN <<>> ELSE <<tag>>,
           IF action = "remove-value" THEN <<tag>> ELSE <<>>,
           [album |-> album,
            sent |-> changeRequests(IdList(activeIds(picked)),
                                    IF action = "remove-value" THEN "DELETE" ELSE "POST",
                                    tag)])
  /\ UNCHANGED <<picked, bserver>>
  /\ UNCHANGED <<toggleVars, pagerVars, editVars, photoVars, deleteVars, tagVars, moreVars>>

\* the server stores what a request asks for and answers with the tags it holds
batchStored(held, req) ==
  CASE req.type = "save"   -> req.user_tags
    [] req.type = "POST"   -> IF Occurs(held, req.tag) THEN held ELSE Append(held, req.tag)
    [] req.type = "DELETE" -> IF Occurs(held, req.tag) THEN RemoveFirst(held, req.tag) ELSE held
    [] OTHER               -> held

BatchRequests == {"save", "POST", "DELETE"}

batchServed(i) ==
  /\ i \in 1..Len(bnet)
  /\ bnet[i].type \in BatchRequests
  /\ LET req == bnet[i]
         held == batchStored(bserver[req.id], req)
     IN  /\ bserver' = [bserver EXCEPT ![req.id] = held]
         /\ bnet' = RemoveAt(bnet, i) \o <<Msg("answer", req.id, req.tag, held)>>
  /\ UNCHANGED <<album, picked, blog>>
  /\ UNCHANGED <<toggleVars, pagerVars, editVars, photoVars, deleteVars, tagVars, moreVars>>

\* the callback of Photo.save and update(a) of TagSelect: the asset takes the answer
batchUpdated(i) ==
  /\ i \in 1..Len(bnet)
  /\ bnet[i].type = "answer"
  /\ album' = [album EXCEPT ![bnet[i].id] = bnet[i].user_tags]
  /\ bnet' = RemoveAt(bnet, i)
  /\ blog' = [blog EXCEPT !.op = "answer"]
  /\ UNCHANGED <<picked, bserver>>
  /\ UNCHANGED <<toggleVars, pagerVars, editVars, photoVars, deleteVars, tagVars, moreVars>>

\* a request or its answer is lost: no client handles the failure
batchFailed(i) ==
  /\ i \in 1..Len(bnet)
  /\ bnet' = RemoveAt(bnet, i)
  /\ blog' = [blog EXCEPT !.op = "failure"]
  /\ UNCHANGED <<album, picked, bserver>>
  /\ UNCHANGED <<toggleVars, pagerVars, editVars, photoVars, deleteVars, tagVars, moreVars>>

(* Deleting assets *)

\* Asset.remove and Photo.delete_: the request they send
Remove(id, client) == [type |-> "DELETE", id |-> id, client |-> client]

\* Thumbs.removeCursor: the index it works on; an argument of 0 counts as none
removeIndex(t, arg) == IF arg = Null \/ arg = 0 THEN t.cursor ELSE arg

\* Thumbs.removeCursor
removeCursor(arg) ==
  /\ app = "editing"
  /\ LET idx == removeIndex(thumbs, arg)
         left == [thumbs EXCEPT !.assets = Splice(thumbs.assets, idx)]
         t1 == IF Len(left.assets) = 0 THEN [left EXCEPT !.asset = Null] ELSE left
         t2 == IF t1.cursor >= idx /\ t1.cursor > 0 THEN setCursor(t1, t1.cursor - 1) ELSE t1
     IN  /\ Len(dnet) < MaxPendingDeletes
         /\ ~(idx < 0 \/ idx >= Len(thumbs.assets))
         /\ dnet' = dnet \o <<Remove(thumbs.assets[idx + 1], "Thumbs")>>
         /\ gone' = gone \cup {thumbs.assets[idx + 1]}
         /\ thumbs' = [t2 EXCEPT !.selected = t2.selected \ {thumbs.assets[idx + 1]}]
  /\ UNCHANGED <<tnet, scope, mnet, catalog, app>>
  /\ UNCHANGED <<toggleVars, editVars, photoVars, batchVars, tagVars, moreVars>>

\* Thumbs.removeSelected hands forEach a callback that reads this.cursor; the
\* file is in strict mode and forEach is given no receiver, so this is
\* undefined there and the read raises at the first selected asset, before
\* its remove(): nothing is sent and the list is kept.
removeSelectedRaises(t) == \E i \in 1..Len(t.assets) : t.assets[i] \in t.selected

removeSelected ==
  /\ picked.client = "Thumbs"
  /\ blog.calls < MaxBatchCalls
  /\ thumbs' = IF removeSelectedRaises(thumbs) THEN thumbs
               ELSE IF Len(thumbs.assets) = 0 THEN [thumbs EXCEPT !.asset = Null]
               ELSE setCursor(thumbs, Max({0, thumbs.cursor}))
  /\ blog' = BatchLog("removeSelected", thumbs.selected, <<>>, <<>>, <<>>)
  /\ UNCHANGED <<tnet, scope, mnet, catalog, app, dnet, gone>>
  /\ UNCHANGED <<album, picked, bserver, bnet>>
  /\ UNCHANGED <<toggleVars, editVars, photoVars, tagVars, moreVars>>

\* MediaCtrl.deletePhoto, with the viewer open and the question confirmed
deletePhoto ==
  /\ app = "media"
  /\ scope.cursor >= 0 /\ scope.cursor < Len(scope.photos)
  /\ Len(dnet) < MaxPendingDeletes
  /\ \A i \in 1..Len(dnet) : dnet[i].id # scope.photos[scope.cursor + 1]
  /\ dnet' = dnet \o <<Remove(scope.photos[scope.cursor + 1], "MediaCtrl")>>
  /\ UNCHANGED <<thumbs, tnet, scope, mnet, catalog, app, gone>>
  /\ UNCHANGED <<toggleVars, editVars, photoVars, batchVars, tagVars, moreVars>>

\* the server deletes the asset: no query returns it from now on
Without(list, id) == SelectSeq(list, LAMBDA x : x # id)

deleteServed(i) ==
  /\ i \in 1..Len(dnet)
  /\ dnet[i].type = "DELETE"
  /\ catalog' = [q \in QueryNames |-> Without(catalog[q], dnet[i].id)]
  /\ dnet' = IF dnet[i].client = "MediaCtrl"
             THEN RemoveAt(dnet, i) \o <<[dnet[i] EXCEPT !.type = "deleted"]>>
             ELSE RemoveAt(dnet, i)
  /\ UNCHANGED <<thumbs, tnet, scope, mnet, app, gone>>
  /\ UNCHANGED <<toggleVars, editVars, photoVars, batchVars, tagVars, moreVars>>

\* the callback deletePhoto hands to Photo.delete_
photoDeleted(i) ==
  /\ i \in 1..Len(dnet)
  /\ dnet[i].type = "deleted"
  /\ LET at == ListIndexOf(scope.photos, dnet[i].id)
     IN  scope' = IF at >= 0
                  THEN [scope EXCEPT
                          !.cursor = IF scope.cursor = Len(scope.photos) - 1
                                     THEN scope.cursor - 1 ELSE scope.cursor,
                          !.photos = Splice(scope.photos, at)]
                  ELSE scope
  /\ gone' = gone \cup {dnet[i].id}
  /\ dnet' = RemoveAt(dnet, i)
  /\ UNCHANGED <<thumbs, tnet, mnet, catalog, app>>
  /\ UNCHANGED <<toggleVars, editVars, photoVars, batchVars, tagVars, moreVars>>

NextDelete ==
  \/ \E arg \in {Null, 0, 1} : removeCursor(arg)
  \/ deletePhoto
  \/ \E i \in 1..Len(dnet) : deleteServed(i)
  \/ \E i \in 1..Len(dnet) : photoDeleted(i)

\* C16: an asset deleted through the client is not in the loaded list, as
\* long as the query is the same: no page fetch adds it again.
C16_DeleteIsTerminal ==
  /\ OneQuery => \A i \in 1..Len(thumbs.assets) : thumbs.assets[i] \notin gone
  /\ \A i \in 1..Len(scope.photos) : scope.photos[i] \notin gone

---------------------------------------------------------------------------
(* Tags that are part of the query *)

\* Group and Browse: a tag counts as part of the query when /name/ occurs in
\* the pathname
active(p, name) == StrIndexOf(p, Slash \o name \o Slash) >= 0

\* C20: a tag is active (highlighted by Group, left out of the candidates of
\* Browse, removed by a click) exactly when its name is one of the segments
\* of the query of the pathname.
C20_ExactTagMatch ==
  \A name \in TagNames : active(path, name) <=> Occurs(QueryOf(path), name)

---------------------------------------------------------------------------
(* The tag display *)

Digits == {"0", "1", "2", "3", "4", "5", "6", "7", "8", "9"}
Whitespace == {" ", "\n"}
LineTerminators == {"\n"}

\* the characters of the tags, in the order of their code units
CodeOrder ==
  <<"\n", " ", "-", "0", "1", "2", "3", "4", "5", "6", "7", "8", "9", ":",
    "a", "b", "c", "d", "e", "f", "g", "h", "i", "j", "k", "l", "m", "n", "o",
    "p", "q", "r", "s", "t", "u", "v", "w", "x", "y", "z">>
CharCode(c) == CHOOSE i \in 1..Len(CodeOrder) : CodeOrder[i] = c

\* s < t on strings
RECURSIVE StrLess(_, _)
StrLess(s, t) ==
  IF t = <<>> THEN FALSE
  ELSE IF s = <<>> THEN TRUE
  ELSE IF Head(s) # Head(t) THEN CharCode(Head(s)) < CharCode(Head(t))
  ELSE StrLess(Tail(s), Tail(t))

\* the parts of the regular expressions of TAG_PATTERNS, between ^ and $:
\* literal text, (a|b), \d, \S+ and .*
Lit(s) == [k |-> "lit", s |-> s]
Alt(of) == [k |-> "alt", of |-> of]
Digit == [k |-> "\\d"]
NonSpaces == [k |-> "\\S+"]
AnyChars == [k |-> ".*"]

\* the aperture rules begin with the letter f with a hook, written f here
TAG_PATTERNS == <<
  \* Year
  [re |-> <<Alt({<<"1", "9">>, <<"2", "0">>}), Digit, Digit>>, hue |-> 90, block |-> 0],
  \* Month
  [re |-> <<Lit(<<"j", "a", "n", "u", "a", "r", "y">>)>>, hue |-> 120, block |-> 0],
  [re |-> <<Lit(<<"f", "e", "b", "r", "u", "a", "r", "y">>)>>, hue |-> 120, block |-> 0],
  [re |-> <<Lit(<<"m", "a", "r", "c", "h">>)>>, hue |-> 120, block |-> 0],
  [re |-> <<Lit(<<"a", "p", "r", "i", "l">>)>>, hue |-> 120, block |-> 0],
  [re |-> <<Lit(<<"m", "a", "y">>)>>, hue |-> 120, block |-> 0],
  [re |-> <<Lit(<<"j", "u", "n", "e">>)>>, hue |-> 120, block |-> 0],
  [re |-> <<Lit(<<"j", "u", "l", "y">>)>>, hue |-> 120, block |-> 0],
  [re |-> <<Lit(<<"a", "u", "g", "u", "s", "t">>)>>, hue |-> 120, block |-> 0],
  [re |-> <<Lit(<<"s", "e", "p", "t", "e", "m", "b", "e", "r">>)>>, hue |-> 120, block |-> 0],
  [re |-> <<Lit(<<"o", "c", "t", "o", "b", "e", "r">>)>>, hue |-> 120, block |-> 0],
  [re |-> <<Lit(<<"n", "o", "v", "e", "m", "b", "e", "r">>)>>, hue |-> 120, block |-> 0],
  [re |-> <<Lit(<<"d", "e", "c", "e", "m", "b", "e", "r">>)>>, hue |-> 120, block |-> 0],
  \* Day of month
  [re |-> <<Digit, Alt({<<"s", "t">>, <<"n", "d">>, <<"r", "d">>, <<"t", "h">>})>>, hue |-> 150, block |-> 0],
  [re |-> <<Digit, Digit, Alt({<<"s", "t">>, <<"n", "d">>, <<"r", "d">>, <<"t", "h">>})>>, hue |-> 150, block |-> 0],
  \* Day of week
  [re |-> <<Lit(<<"s", "u", "n", "d", "a", "y">>)>>, hue |-> 180, block |-> 0],
  [re |-> <<Lit(<<"m", "o", "n", "d", "a", "y">>)>>, hue |-> 180, block |-> 0],
  [re |-> <<Lit(<<"t", "u", "e", "s", "d", "a", "y">>)>>, hue |-> 180, block |-> 0],
  [re |-> <<Lit(<<"w", "e", "d", "n", "e", "s", "d", "a", "y">>)>>, hue |-> 180, block |-> 0],
  [re |-> <<Lit(<<"t", "h", "u", "r", "s", "d", "a", "y">>)>>, hue |-> 180, block |-> 0],
  [re |-> <<Lit(<<"f", "r", "i", "d", "a", "y">>)>>, hue |-> 180, block |-> 0],
  [re |-> <<Lit(<<"s", "a", "t", "u", "r", "d", "a", "y">>)>>, hue |-> 180, block |-> 0],
  \* Time of day
  [re |-> <<Lit(<<"1", "2", "a", "m">>)>>, hue |-> 210, block |-> 1],
  [re |-> <<Digit, Lit(<<"a", "m">>)>>, hue |-> 210, block |-> 1],
  [re |-> <<Digit, Digit, Lit(<<"a", "m">>)>>, hue |-> 210, block |-> 1],
  [re |-> <<Lit(<<"1", "2", "p", "m">>)>>, hue |-> 210, block |-> 1],
  [re |-> <<Digit, Lit(<<"p", "m">>)>>, hue |-> 210, block |-> 1],
  [re |-> <<Digit, Digit, Lit(<<"p", "m">>)>>, hue |-> 210, block |-> 1],
  \* Camera
  [re |-> <<Lit(<<"k", "i", "t", ":">>), NonSpaces>>, hue |-> 240, block |-> 2],
  \* Aperture
  [re |-> <<Lit(<<"f", "-">>), Digit>>, hue |-> 240, block |-> 2],
  [re |-> <<Lit(<<"f", "-">>), Digit, Digit>>, hue |-> 240, block |-> 2],
  [re |-> <<Lit(<<"f", "-">>), Digit, Digit, Digit>>, hue |-> 240, block |-> 2],
  \* Focal length
  [re |-> <<Digit, Lit(<<"m", "m">>)>>, hue |-> 240, block |-> 2],
  [re |-> <<Digit, Digit, Lit(<<"m", "m">>)>>, hue |-> 240, block |-> 2],
  [re |-> <<Digit, Digit, Digit, Lit(<<"m", "m">>)>>, hue |-> 240, block |-> 2],
  [re |-> <<Digit, Digit, Digit, Digit, Lit(<<"m", "m">>)>>, hue |-> 240, block |-> 2],
  \* Geolocation
  [re |-> <<Lit(<<"c", "o", "u", "n", "t", "r", "y", ":">>), NonSpaces>>, hue |-> 270, block |-> 3],
  [re |-> <<Lit(<<"s", "t", "a", "t", "e", ":">>), NonSpaces>>, hue |-> 270, block |-> 3],
  [re |-> <<Lit(<<"c", "i", "t", "y", ":">>), NonSpaces>>, hue |-> 270, block |-> 3],
  [re |-> <<Lit(<<"p", "l", "a", "c", "e", ":">>), NonSpaces>>, hue |-> 270, block |-> 3],
  \* User-defined
  [re |-> <<AnyChars>>, hue |-> 0, block |-> 4]
>>

\* RegExp.prototype.test for these expressions: the whole string must match,
\* and . matches any character but a line terminator
RECURSIVE test(_, _)
test(re, t) ==
  IF re = <<>> THEN t = <<>>
  ELSE LET it == Head(re)
           after(n) == test(Tail(re), SubSeq(t, n + 1, Len(t)))
       IN  CASE it.k = "lit" -> IsPrefix(it.s, t) /\ after(Len(it.s))
             [] it.k = "alt" -> \E a \in it.of : IsPrefix(a, t) /\ after(Len(a))
             [] it.k = "\\d" -> t # <<>> /\ Head(t) \in Digits /\ after(1)
             [] it.k = "\\S+" ->
                  \E n \in 1..Len(t) : (\A i \in 1..n : t[i] \notin Whitespace) /\ after(n)
             [] OTHER ->
                  \E n \in 0..Len(t) : (\A i \in 1..n : t[i] \notin LineTerminators) /\ after(n)

\* TAG_PATTERNS.some: the 0-based index of the first pattern that matches
\* from p on, or Null when the loop ends without a match
RECURSIVE some(_, _)
some(t, p) ==
  IF p > Len(TAG_PATTERNS) THEN Null
  ELSE IF test(TAG_PATTERNS[p].re, t) THEN p - 1
  ELSE some(t, p + 1)

TagPool == {<<"m", "a", "y">>, <<"j", "u", "n", "e">>, <<"2", "0", "1", "9">>,
            <<"1", "s", "t">>, <<"f", "r", "i", "d", "a", "y">>,
            <<"1", "2", "a", "m">>, <<"k", "i", "t", ":", "x">>,
            <<"k", "i", "t", ":", " ", "x">>, <<"5", "m", "m">>,
            <<"c", "i", "t", "y", ":", "x">>, <<"x">>, <<"x", "\n", "y">>}

MonthNames == {<<"j", "a", "n", "u", "a", "r", "y">>,
               <<"f", "e", "b", "r", "u", "a", "r", "y">>,
               <<"m", "a", "r", "c", "h">>, <<"a", "p", "r", "i", "l">>,
               <<"m", "a", "y">>, <<"j", "u", "n", "e">>, <<"j", "u", "l", "y">>,
               <<"a", "u", "g", "u", "s", "t">>,
               <<"s", "e", "p", "t", "e", "m", "b", "e", "r">>,
               <<"o", "c", "t", "o", "b", "e", "r">>,
               <<"n", "o", "v", "e", "m", "b", "e", "r">>,
               <<"d", "e", "c", "e", "m", "b", "e", "r">>}

\* the tag lists of the assets that are shown
AssetTagLists ==
  {<<<<"m", "a", "y">>, <<"j", "u", "n", "e">>>>, <<<<"j", "u", "n", "e">>, <<"2", "0", "1", "9">>, <<"x">>>>, <<<<"x">>, <<"m", "a", "y">>>>,
   <<<<"x", "\n", "y">>, <<"x">>>>, <<<<"k", "i", "t", ":", "x">>, <<"5", "m", "m">>, <<"1", "2", "a", "m">>, <<"k", "i", "t", ":", " ", "x">>>>,
   <<<<"c", "i", "t", "y", ":", "x">>, <<"1", "s", "t">>, <<"f", "r", "i", "d", "a", "y">>>>}

\* the members of a set, one after the other
RECURSIVE Listed(_)
Listed(S) ==
  IF S = {} THEN <<>>
  ELSE LET x == CHOOSE x \in S : TRUE IN <<x>> \o Listed(S \ {x})

\* assets.forEach(asset => asset.tags.forEach(...)): the tags in the order they are met
RECURSIVE Flat(_)
Flat(assets) == IF assets = <<>> THEN <<>> ELSE Head(assets) \o Flat(Tail(assets))

NoBlocks == [b \in 0..4 |-> [active |-> <<>>, other |-> <<>>]]

\* Tags: the record of a tag seen for the first time
tagRecord(t, pathname) ==
  CHOOSE tag \in {[name |-> t, count |-> 0, active |-> active(pathname, t),
                   hue |-> IF p = Null THEN Null ELSE TAG_PATTERNS[p + 1].hue,
                   order |-> p] : p \in {some(t, 1)}} : TRUE

\* the tags of a list in the order they are first met
Firsts(list) ==
  LET at == {i \in 1..Len(list) : \A j \in 1..(i - 1) : list[j] # list[i]}
  IN  [k \in 1..Cardinality(at) |->
         list[CHOOSE i \in at : Cardinality({j \in at : j <= i}) = k]]

\* Tags: the loop over the tags of the assets: a record for each tag, counted
\* once for every time it is met, and its name pushed to a list of the block
\* of its pattern when it is met first
countUp(list, pathname) ==
  LET in(b, tag) == tag.order # Null /\ TAG_PATTERNS[tag.order + 1].block = b
      blocksOf(tags, firsts) ==
        [b \in 0..4 |->
           [active |-> SelectSeq(firsts, LAMBDA t : in(b, tags[t]) /\ tags[t].active),
            other |-> SelectSeq(firsts, LAMBDA t : in(b, tags[t]) /\ ~tags[t].active)]]
  IN  CHOOSE seen \in
        {[tags |-> tags, blocks |-> blocksOf(tags, firsts)] :
           tags \in {[t \in {list[i] : i \in 1..Len(list)} |->
                        [tagRecord(t, pathname) EXCEPT !.count = Count(list, t)]]},
           firsts \in {Firsts(list)}} : TRUE

\* the comparator as it would be if it looked at the names only
cmpByName(s, t) ==
  IF StrLess(s.name, t.name) THEN -1 ELSE IF StrLess(t.name, s.name) THEN 1 ELSE 0

\* cmp, and the cmp of Block: by order first and by name second
cmp(s, t) ==
  IF s.order < t.order THEN -1 ELSE IF s.order > t.order THEN 1
  ELSE IF StrLess(s.name, t.name) THEN -1 ELSE IF StrLess(t.name, s.name) THEN 1 ELSE 0

\* Array.prototype.sort of names, compared through their records
RECURSIVE sort(_, _)
sort(names, recs) ==
  IF names = <<>> THEN <<>>
  ELSE LET rest == sort(Tail(names), recs)
           x == Head(names)
           n == Cardinality({i \in 1..Len(rest) : cmp(recs[rest[i]], recs[x]) < 0})
       IN  SubSeq(rest, 1, n) \o <<x>> \o SubSeq(rest, n + 1, Len(rest))

\* Block: sorts the two lists of its block
Block(block, tags) ==
  [active |-> sort(block.active, tags), other |-> sort(block.other, tags)]

\* countTags: for each tag, one more for every time a tag list holds it
countTags(assets) == [t \in TagPool |-> Count(Flat(assets), t)]

\* the tag records of the library, as ConfigContext hands them to every consumer
LibraryTags ==
  <<[name |-> <<"m", "a", "y">>, group |-> <<"d", "a", "t", "e">>, order |-> 0, count |-> 3,
     editable |-> FALSE],
    [name |-> <<"j", "u", "n", "e">>, group |-> <<"d", "a", "t", "e">>, order |-> 0, count |-> 0,
     editable |-> FALSE],
    [name |-> <<"2", "0", "1", "9">>, group |-> <<"d", "a", "t", "e">>, order |-> 0, count |-> 4,
     editable |-> FALSE],
    [name |-> <<"k", "i", "t", ":", "x">>, group |-> <<"k", "i", "t">>, order |-> 2, count |-> 2,
     editable |-> FALSE],
    [name |-> <<"x">>, group |-> <<"u", "s", "e", "r">>, order |-> 1, count |-> 5,
     editable |-> TRUE]>>

\* TagGroups: the test that leaves a tag record out
skipped(t, counts, hideEditable) ==
  \/ t.count = 0
  \/ hideEditable /\ t.editable
  \/ counts[t.name] = 0

\* TagGroups: the groups it builds, sorted, each with its tags as Group sorts them
groupsOf(tags, counts, hideEditable) ==
  LET kept == {i \in 1..Len(tags) : ~skipped(tags[i], counts, hideEditable)}
      first(g) == tags[Min({i \in kept : tags[i].group = g})]
      groups == [g \in {tags[i].group : i \in kept} |-> [name |-> g, order |-> first(g).order]]
      byName(g) == [n \in {tags[i].name : i \in {j \in kept : tags[j].group = g}} |->
                      CHOOSE t \in {tags[i] : i \in kept} : t.name = n]
      names(S) == Listed(S)
      sorted == sort(names(DOMAIN groups), groups)
  IN  [i \in 1..Len(sorted) |->
         [name |-> sorted[i], order |-> groups[sorted[i]].order,
          tags |-> sort(names(DOMAIN byName(sorted[i])), byName(sorted[i]))]]

NoTagUi ==
  [op |-> "none", assets |-> <<>>, pathname |-> <<>>, tags |-> <<>>, blocks |-> NoBlocks,
   counts |-> [t \in TagPool |-> 0], groups |-> <<>>]

\* Tags, rendered with its blocks, for the assets shown
Tags(pathname) ==
  /\ Len(tagui.assets) # 0
  /\ \E seen \in {countUp(Flat(tagui.assets), pathname)} :
         tagui' = [tagui EXCEPT !.op = "Tags", !.pathname = pathname, !.tags = seen.tags,
                                !.blocks = [b \in 0..4 |-> Block(seen.blocks[b], seen.tags)]]
  /\ UNCHANGED <<config, ctrl>>
  /\ UNCHANGED <<toggleVars, pagerVars, editVars, photoVars, deleteVars, batchVars, moreVars>>

\* TagGroups, rendered with its groups, for the assets shown: it writes the
\* count of the assets into every record of config.tags it keeps
TagGroups(hideEditable) ==
  /\ \E counts \in {countTags(tagui.assets)} :
         /\ tagui' = [tagui EXCEPT !.op = "TagGroups", !.counts = counts,
                                   !.groups = groupsOf(config.tags, counts, hideEditable)]
         /\ config' = [config EXCEPT !.tags =
                         [i \in 1..Len(config.tags) |->
                            IF skipped(config.tags[i], counts, hideEditable)
                            THEN config.tags[i]
                            ELSE [config.tags[i] EXCEPT !.count = counts[config.tags[i].name]]]]
  /\ UNCHANGED ctrl
  /\ UNCHANGED <<toggleVars, pagerVars, editVars, photoVars, deleteVars, batchVars, moreVars>>

RestTagUi == tagui = NoTagUi /\ config = [tags |-> LibraryTags]

InitTags ==
  /\ \E assets \in SeqsUpTo(AssetTagLists, MaxTagAssets) : tagui = [NoTagUi EXCEPT !.assets = assets]
  /\ config = [tags |-> LibraryTags]

NextTags ==
  \/ \E tags \in SeqsUpTo({<<"m", "a", "y">>, <<"x">>}, 1) : Tags(PathOf(ViewRoute, tags))
  \/ \E hideEditable \in BOOLEAN : TagGroups(hideEditable)

---------------------------------------------------------------------------
\* the rules that match a tag, as 1-based indexes
Hits(t) == {p \in 1..Len(TAG_PATTERNS) : test(TAG_PATTERNS[p].re, t)}

\* C13: every tag that Tags meets matches at least one rule and carries the
\* index and the hue of the first rule that matches it, and it is listed in
\* the block of that rule and in no other; every month name is classified by
\* its own rule, with hue 120 in block 0, and not by the last rule.
C13_FirstMatchWins ==
  /\ tagui.op = "Tags" =>
       \A t \in DOMAIN tagui.tags :
         /\ Hits(t) # {}
         /\ tagui.tags[t].order = Min(Hits(t)) - 1
         /\ tagui.tags[t].hue = TAG_PATTERNS[Min(Hits(t))].hue
         /\ \A b \in 0..4 :
              Count(tagui.blocks[b].active \o tagui.blocks[b].other, t) =
                IF b = TAG_PATTERNS[Min(Hits(t))].block THEN 1 ELSE 0
  /\ \A m \in MonthNames :
       /\ some(m, 1) \notin {Null, Len(TAG_PATTERNS) - 1}
       /\ TAG_PATTERNS[some(m, 1) + 1].hue = 120
       /\ TAG_PATTERNS[some(m, 1) + 1].block = 0

\* s comes before t: by order, and by name when the orders are equal
Before(s, t) == s.order < t.order \/ (s.order = t.order /\ StrLess(s.name, t.name))

Sorted(names, recs) ==
  \A i \in 1..(Len(names) - 1) : Before(recs[names[i]], recs[names[i + 1]])

\* the records of the tags that are listed in a block
Classified == {tagui.tags[t] : t \in {n \in DOMAIN tagui.tags : tagui.tags[n].order # Null}}

Occurrences(assets, t) ==
  UNION {{<<i, j>> : j \in {k \in 1..Len(assets[i]) : assets[i][k] = t}} : i \in 1..Len(assets)}

\* C15: the counts TagGroups gets from countTags, once it has been rendered,
\* are the numbers of occurrences of each tag over the tag lists of the
\* assets, and the records of config.tags are what the library handed out,
\* the count of each tag included.
C15_CountingIsPure ==
  /\ \/ tagui.counts = NoTagUi.counts
     \/ \A t \in TagPool : tagui.counts[t] = Cardinality(Occurrences(tagui.assets, t))
  /\ config.tags = LibraryTags

---------------------------------------------------------------------------
(* Parsing the query of a route *)

RouteChars == {"x", " ", "|", "%"}
RouteStrings == SeqsUpTo(RouteChars, MaxRouteLen) \ {<<>>}
RouteTags == {<<"x">>, <<"%">>, <<"x", " ">>}

\* String.prototype.split with a one-character separator
RECURSIVE Split(_, _, _)
Split(s, sep, cur) ==
  IF s = <<>> THEN <<cur>>
  ELSE IF Head(s) = sep THEN <<cur>> \o Split(Tail(s), sep, <<>>)
  ELSE Split(Tail(s), sep, Append(cur, Head(s)))

\* decodeURIComponent on the strings of the model: an escape written by
\* encodeURIComponent gives its character, and a % that starts no escape
\* raises URIError
RECURSIVE decodeURIComponent(_)
decodeURIComponent(s) ==
  IF s = <<>> THEN [ok |-> TRUE, value |-> <<>>]
  ELSE IF Head(s) # "%"
       THEN LET rest == decodeURIComponent(Tail(s))
            IN  [ok |-> rest.ok, value |-> <<Head(s)>> \o rest.value]
  ELSE IF Len(s) < 3 \/ \A c \in {"|", " ", "/", "%"} : SubSeq(s, 1, 3) # EncodeChar(c)
       THEN [ok |-> FALSE, value |-> <<>>]
  ELSE LET rest == decodeURIComponent(SubSeq(s, 4, Len(s)))
           char == CHOOSE c \in {"|", " ", "/", "%"} : SubSeq(s, 1, 3) = EncodeChar(c)
       IN  [ok |-> rest.ok, value |-> <<char>> \o rest.value]

\* MediaCtrl: $scope.activeTags, from $routeParams.tags
activeTagsOf(tags) ==
  LET parts == Split(tags, "|", <<>>)
      decoded == [i \in 1..Len(parts) |-> decodeURIComponent(parts[i])]
  IN  [ok |-> \A i \in 1..Len(parts) : decoded[i].ok,
       value |-> DropEmpty([i \in 1..Len(parts) |-> decoded[i].value])]

\* PhotosCtrl: $scope.tagged, from $routeParams.tags
taggedOf(tags) == [ok |-> TRUE, value |-> DropEmpty(Split(tags, "|", <<>>))]

\* the controller of the route /:tags is constructed for these tags
Routed(client, tags, via, joined) ==
  LET got == IF client = "MediaCtrl" THEN activeTagsOf(tags) ELSE taggedOf(tags)
  IN  /\ ctrl.changes < MaxRouteChanges
      /\ tags # <<>>
      /\ ctrl' = [client |-> client, tags |-> tags, parsed |-> got.value,
                   raised |-> ~got.ok, via |-> via, joined |-> joined,
                   changes |-> ctrl.changes + 1]

\* the address is typed, or a link from elsewhere is followed
MediaCtrl(tags) ==
  /\ Routed("MediaCtrl", tags, "address", <<>>)
  /\ UNCHANGED <<tagui, config>>
  /\ UNCHANGED <<toggleVars, pagerVars, editVars, photoVars, deleteVars, batchVars, moreVars>>

PhotosCtrl(tags) ==
  /\ Routed("PhotosCtrl", tags, "address", <<>>)
  /\ UNCHANGED <<tagui, config>>
  /\ UNCHANGED <<toggleVars, pagerVars, editVars, photoVars, deleteVars, batchVars, moreVars>>

\* MediaCtrl.goto sets the path, and the route constructs the controller again
gotoRoute(tag) ==
  /\ ctrl.client = "MediaCtrl" /\ ~ctrl.raised
  /\ LET tags == gotoTags(ctrl.parsed, tag)
     IN  Routed("MediaCtrl", Tail(LocationOf(tags)), "goto", tags)
  /\ UNCHANGED <<tagui, config>>
  /\ UNCHANGED <<toggleVars, pagerVars, editVars, photoVars, deleteVars, batchVars, moreVars>>

\* PhotosCtrl.view sets the path, and the route constructs the controller again
view(tag) ==
  /\ ctrl.client = "PhotosCtrl"
  /\ LET tags == gotoTags(ctrl.parsed, tag)
     IN  Routed("PhotosCtrl", Join(tags, Pipe), "view", tags)
  /\ UNCHANGED <<tagui, config>>
  /\ UNCHANGED <<toggleVars, pagerVars, editVars, photoVars, deleteVars, batchVars, moreVars>>

RestRoute ==
  ctrl = [client |-> "none", tags |-> <<>>, parsed |-> <<>>, raised |-> FALSE,
           via |-> "none", joined |-> <<>>, changes |-> 0]

NextRoute ==
  \/ \E tags \in RouteStrings : MediaCtrl(tags)
  \/ \E tags \in RouteStrings : PhotosCtrl(tags)
  \/ \E tag \in RouteTags : gotoRoute(tag)
  \/ \E tag \in RouteTags : view(tag)

\* a segment of nothing but whitespace, the empty one included
Blank(tag) == \A i \in 1..Len(tag) : tag[i] = " "

\* C19: parsing the tags of a route never raises and yields no empty and no
\* whitespace-only tag; when the route was written by joining a list of tags,
\* none of them blank or holding the delimiter, parsing yields that list.
C19_PermissiveParsing ==
  /\ ~ctrl.raised
  /\ \A i \in 1..Len(ctrl.parsed) : ~Blank(ctrl.parsed[i])
  /\ (/\ ctrl.via \in {"goto", "view"}
      /\ \A i \in 1..Len(ctrl.joined) :
           ~Blank(ctrl.joined[i]) /\ ~Occurs(ctrl.joined[i], "|"))
       => ctrl.parsed = ctrl.joined

---------------------------------------------------------------------------
(* Late and failed answers of a page request *)

\* C17: the answer of a request sent for an earlier query adds nothing to the
\* list of the present query: every asset loaded is one the server returns
\* for the query Thumbs holds now.
C17_SupersededDiscarded ==
  thumbs.query # "none" =>
    \A i \in 1..Len(thumbs.assets) : thumbs.assets[i] \in Range(catalog[thumbs.query])

\* C18: when a page request fails, the loaded list is what it was and the
\* loading flag is cleared, for Thumbs and for MediaCtrl, so that the next
\* fetch or loadPhotos is not turned away by the flag.
C18_FailureRetryable ==
  [][ /\ \A i \in 1..Len(tnet) :
           failHandler(i) => (thumbs'.assets = thumbs.assets /\ ~thumbs'.loading)
      /\ \A i \in 1..Len(mnet) :
           photosFailed(i) => (scope'.photos = scope.photos /\ ~scope'.loading)
    ]_vars

---------------------------------------------------------------------------
NoBatchLog ==
  [op |-> "none", ids |-> {}, add |-> <<>>, remove |-> <<>>,
   before |-> [id \in BatchIds |-> <<>>], sent |-> <<>>, calls |-> 0]

TagLists == {tags \in SeqsUpTo(PhotoTags, Cardinality(PhotoTags)) : NoDuplicates(tags)}

\* Thumbs with the assets of a query loaded, some of them selected
LoadedThumbs(selected, cursor) ==
  [query |-> "q1", assets |-> IdList(BatchIds), asset |-> IdList(BatchIds)[cursor + 1],
   cursor |-> cursor, loading |-> FALSE, exhausted |-> TRUE, selected |-> selected,
   superseded |-> FALSE]

InitBatch ==
  /\ \E client \in BatchClients \cup {"Thumbs"}, selected \in SUBSET BatchIds,
        cursorId \in BatchIds :
       /\ picked = [client |-> client, selected |-> selected, cursorId |-> cursorId]
       /\ thumbs = IF client = "Thumbs" THEN LoadedThumbs(selected, cursorId - 1)
                   ELSE [query |-> "none", assets |-> <<>>, asset |-> Null, cursor |-> Null,
                         loading |-> FALSE, exhausted |-> FALSE, selected |-> {},
                         superseded |-> FALSE]
       /\ catalog = [q \in QueryNames |->
                       IF client = "Thumbs" /\ q = "q1" THEN IdList(BatchIds) ELSE <<>>]
       /\ album \in IF client = "Thumbs" THEN {[id \in BatchIds |-> <<>>]}
                     ELSE [BatchIds -> TagLists]
  /\ tnet = <<>> /\ mnet = <<>> /\ app = "editing"
  /\ scope = [photos |-> <<>>, loading |-> FALSE, exhausted |-> FALSE, cursor |-> -1]
  /\ bserver = album
  /\ bnet = <<>>
  /\ blog = NoBatchLog

RestBatch ==
  /\ picked = [client |-> "none", selected |-> {}, cursorId |-> 1]
  /\ album = [id \in BatchIds |-> <<>>]
  /\ bserver = album
  /\ bnet = <<>>
  /\ blog = NoBatchLog

NextBatch ==
  \/ \E add, remove \in SeqsUpTo(PhotoTags, MaxTagArgs) : tagSelected(add, remove)
  \/ \E t \in PhotoTags : tagFormSubmit(t)
  \/ \E a \in {"create-option", "select-option", "remove-value"}, t \in PhotoTags :
       changeTags(a, t)
  \/ removeSelected
  \/ \E i \in 1..Len(bnet) : batchServed(i)
  \/ \E i \in 1..Len(bnet) : batchUpdated(i)
  \/ \E i \in 1..Len(bnet) : batchFailed(i)

\* C12: every batch operation over k active assets sends k requests, one for
\* each asset; when a request or its answer is lost, the others stay in
\* flight and neither the client nor the server changes the tags of an asset.
C12_BatchIndependence ==
  [][ /\ blog'.calls > blog.calls =>
           /\ Len(blog'.sent) = Cardinality(blog'.ids)
           /\ \A id \in blog'.ids :
                Cardinality({i \in 1..Len(blog'.sent) : blog'.sent[i].id = id}) = 1
      /\ \A i \in 1..Len(bnet) :
           batchFailed(i) =>
             (album' = album /\ bserver' = bserver /\ bnet' = RemoveAt(bnet, i))
    ]_vars

\* C11: after tagSelected(add, remove) every target photo holds the tags it
\* held and the tags of add, without the tags of remove, so that a tag of
\* both lists is absent; the other photos hold what they held.
C11_AddBeforeRemove ==
  blog.op = "tagSelected" =>
    \A id \in BatchIds :
      Range(album[id]) =
        IF id \in blog.ids
        THEN (Range(blog.before[id]) \cup Range(blog.add)) \ Range(blog.remove)
        ELSE Range(blog.before[id])

\* C26: an empty list of Thumbs has neither a cursor nor an asset under it;
\* in a list that is not empty the cursor is an index of the list and the
\* asset under the cursor is the asset at that index.
C26_CursorConsistent ==
  IF Len(thumbs.assets) = 0
  THEN thumbs.asset = Null /\ thumbs.cursor = Null
  ELSE /\ thumbs.cursor # Null
       /\ 0 <= thumbs.cursor /\ thumbs.cursor < Len(thumbs.assets)
       /\ thumbs.asset = thumbs.assets[thumbs.cursor + 1]

---------------------------------------------------------------------------
(* Label: the cursor and the selected indexes *)

earlierVars == <<toggleVars, pagerVars, editVars, photoVars, deleteVars, batchVars, tagVars>>

KeyCodes == {"Escape", "KeyN", "KeyX", "ArrowLeft", "ArrowRight", "ArrowUp", "ArrowDown",
             "Equal", "Minus"}

\* window.innerWidth
Widths == {320, 640}

\* the state of a Label that has just been mounted
NewLabel ==
  [assets |-> <<>>, cursor |-> -1, selected |-> {}, activeAssets |-> <<>>, thumbSize |-> 160]

RestLabel == label = NewLabel

\* Object.keys(selected), as a list in the order of the keys
keysOf(selected) ==
  LET pick[rest \in SUBSET selected] ==
        IF rest = {} THEN <<>>
        ELSE LET k == CHOOSE x \in rest : \A y \in rest : x <= y
             IN  <<k>> \o pick[rest \ {k}]
  IN  pick[selected]

\* assets[idx]: undefined (Null) outside the list
assetAt(assets, idx) == IF idx >= 0 /\ idx < Len(assets) THEN assets[idx + 1] ELSE Null

\* the effect on [selected]: the assets of the selected keys
activeAssetsOf(assets, selected) ==
  [i \in 1..Cardinality(selected) |-> assetAt(assets, keysOf(selected)[i])]

\* the new cursor of moveCursor(inc)
moveCursor(cur, inc, assets) == Max({0, Min({cur + inc, Len(assets) - 1})})

\* the new selection of toggleSelected(idx)
toggleSelected(sel, idx) == IF idx \in sel THEN sel \ {idx} ELSE sel \cup {idx}

\* the indexes a click with the shift key adds
shiftAdd(cursor, idx) ==
  IF cursor < idx THEN {i \in cursor..idx : TRUE} ELSE {i \in idx..cursor : TRUE}

\* the selection changes and the effect on [selected] runs
select(sel, cur) ==
  label' = [label EXCEPT !.selected = sel, !.cursor = cur,
                         !.activeAssets = activeAssetsOf(label.assets, sel)]

\* useAssets hands more assets of the query to Label
labelAssets(n) ==
  /\ n \in 1..MaxAssets
  /\ Len(label.assets) + n <= MaxAssets
  /\ label' = [label EXCEPT !.assets = @ \o Ids(Len(@), n)]
  /\ UNCHANGED <<mon, selectedIds, viewer, related, hook>>
  /\ UNCHANGED earlierVars

\* the click handler of the thumbnail at idx
labelClick(idx, shiftKey) ==
  /\ idx \in 0..(Len(label.assets) - 1)
  /\ IF shiftKey
     THEN select(label.selected \cup shiftAdd(label.cursor, idx), idx)
     ELSE select(toggleSelected(label.selected, idx), idx)
  /\ UNCHANGED <<mon, selectedIds, viewer, related, hook>>
  /\ UNCHANGED earlierVars

\* setThumbSize(s => Math.max(80, Math.min(s + by, 320)))
resize(size, by) == Max({80, Min({size + by, 320})})

\* the keydown handler of Label in a window of some width; Escape leaves the
\* page, and the next Label starts anew
keydown(code, innerWidth) ==
  /\ LET cols == innerWidth \div label.thumbSize IN
     CASE code = "Escape" -> label' = NewLabel
       [] code = "KeyN" -> select({}, label.cursor)
       [] code = "KeyX" -> select(toggleSelected(label.selected, label.cursor), label.cursor)
       [] code = "ArrowLeft" -> select(label.selected, moveCursor(label.cursor, -1, label.assets))
       [] code = "ArrowRight" -> select(label.selected, moveCursor(label.cursor, 1, label.assets))
       [] code = "ArrowUp" -> select(label.selected, moveCursor(label.cursor, -cols, label.assets))
       [] code = "ArrowDown" -> select(label.selected, moveCursor(label.cursor, cols, label.assets))
       [] code = "Equal" -> label' = [label EXCEPT !.thumbSize = resize(@, 20)]
       [] code = "Minus" -> label' = [label EXCEPT !.thumbSize = resize(@, -20)]
  /\ label' # label
  /\ UNCHANGED <<mon, selectedIds, viewer, related, hook>>
  /\ UNCHANGED earlierVars

NextLabel ==
  \/ \E n \in 1..MaxAssets : labelAssets(n)
  \/ \E idx \in 0..(MaxAssets - 1), shiftKey \in BOOLEAN : labelClick(idx, shiftKey)
  \/ \E code \in KeyCodes, innerWidth \in Widths : keydown(code, innerWidth)

\* C27: every selected key of Label is the index of a loaded asset, and every
\* active asset is an asset.
C27_SelectionValid ==
  /\ \A idx \in label.selected : 0 <= idx /\ idx < Len(label.assets)
  /\ \A i \in 1..Len(label.activeAssets) : label.activeAssets[i] # Null

---------------------------------------------------------------------------
(* View: the hooks useAssets and useCurrent *)

HookLimit == 64     \* limit of useAssets
FirstLimit == 128   \* lim of the first page in assetsUrl of View
Margin == 32        \* update loads more when idx > assets.length - 32

\* the numbers of assets that match the query
Totals == {0, 1, HookLimit + 6, FirstLimit + 2}

\* assetsUrl(q, o, l) of View
assetsUrl(o, l) == [off |-> o, lim |-> IF o = 0 THEN FirstLimit ELSE l]

\* the number of assets the server returns for a request
served(total, req) == Max({0, Min({req.lim, total - req.off})})

\* a value that is neither null nor 0
Truthy(x) == x # Null /\ x # 0

\* what View returns: the asset at current or the thumbnails
shown(current, length) ==
  IF Truthy(current) /\ 0 <= current /\ current < length THEN "asset" ELSE "thumbs"

\* the second effect of useCurrent listens for keys only if (current)
listens(current) == Truthy(current)

\* load(): func of the last effect of useAssets, with offset = assets.length
load(h) ==
  LET url == assetsUrl(h.length, HookLimit)
  IN  [h EXCEPT !.net = Append(@, url),
                !.requested = @ \cup {url.off},
                !.twice = @ \cup ({url.off} \cap h.requested)]

\* useCurrent.update(idx)
update(idx) ==
  /\ viewer' = [viewer EXCEPT !.current = idx]
  /\ IF hook.hasMore /\ Truthy(idx) /\ idx > hook.length - Margin
     THEN Len(hook.net) < MaxLoads /\ hook' = load(hook)
     ELSE hook' = hook
  /\ UNCHANGED <<mon, selectedIds, label, related>>
  /\ UNCHANGED earlierVars

\* a click on the thumbnail at idx
thumbClick(idx) ==
  /\ shown(viewer.current, hook.length) = "thumbs"
  /\ idx \in 0..(hook.length - 1)
  /\ update(idx)

\* onKeyDown of useCurrent
onKeyDown(key) ==
  /\ listens(viewer.current)
  /\ CASE key = "Escape" -> update(Null)
       [] key = "ArrowLeft" -> viewer.current > 0 /\ update(viewer.current - 1)
       [] key = "ArrowRight" -> viewer.current < hook.length - 1 /\ update(viewer.current + 1)

\* close of Controls
close ==
  /\ shown(viewer.current, hook.length) = "asset"
  /\ update(Null)

\* InfiniteScroll calls next when the thumbnails are scrolled to the bottom,
\* once for every dataLength
next ==
  /\ shown(viewer.current, hook.length) = "thumbs"
  /\ hook.length > 0
  /\ hook.hasMore /\ ~hook.triggered
  /\ Len(hook.net) < MaxLoads
  /\ hook' = [load(hook) EXCEPT !.triggered = TRUE]
  /\ UNCHANGED <<mon, selectedIds, label, viewer, related>>
  /\ UNCHANGED earlierVars

\* the answer to a request of func arrives
assetsLoaded(i) ==
  /\ i \in 1..Len(hook.net)
  /\ LET n == served(hook.total, hook.net[i])
     IN  hook' = [hook EXCEPT !.net = RemoveAt(@, i),
                              !.hasMore = n >= HookLimit,
                              !.length = @ + n,
                              !.pages = IF n > 0 THEN Append(@, hook.net[i].off) ELSE @,
                              !.triggered = IF n > 0 THEN FALSE ELSE @]
  /\ UNCHANGED <<mon, selectedIds, label, viewer, related>>
  /\ UNCHANGED earlierVars

\* View is mounted: no assets, and the first effect of useAssets has sent the
\* request of offset 0
NewHook(total) ==
  [total |-> total, length |-> 0, pages |-> <<>>, hasMore |-> TRUE, triggered |-> FALSE,
   net |-> <<assetsUrl(0, HookLimit)>>, requested |-> {0}, twice |-> {}]

InitView ==
  /\ viewer = [current |-> Null]
  /\ \E total \in Totals : hook = NewHook(total)

NextView ==
  \/ \E idx \in 0..(2 * FirstLimit) : thumbClick(idx)
  \/ \E key \in {"Escape", "ArrowLeft", "ArrowRight"} : onKeyDown(key)
  \/ close
  \/ next
  \/ \E i \in 1..Len(hook.net) : assetsLoaded(i)

\* C28: whenever the current index is the index of a loaded asset, View shows
\* that asset and the keys are listened for.
C28_EveryAssetOpens ==
  (viewer.current # Null /\ 0 <= viewer.current /\ viewer.current < hook.length) =>
    (shown(viewer.current, hook.length) = "asset" /\ listens(viewer.current))

\* C30: no offset is requested twice, and no page is in the list twice.
C30_OffsetsOnce ==
  /\ hook.twice = {}
  /\ \A i, j \in 1..Len(hook.pages) : i # j => hook.pages[i] # hook.pages[j]

---------------------------------------------------------------------------
(* Asset: the duplicates and the similar assets *)

\* the assets the two requests can return
RelatedPool == 1..MaxRelated

\* an Asset that is not on the page
NoAsset ==
  [mounted |-> FALSE, content |-> {}, tagged |-> {},
   dupes |-> [assets |-> {}, loading |-> FALSE],
   similar |-> [assets |-> {}, loading |-> FALSE],
   net |-> <<>>]

RestRelated == related = NoAsset

\* the effect on [asset, dupes.loading]: the request for the assets similar by
\* tag; its answer is filtered by the dupes of the render the effect ran in
similarRequest(dupes) == [kind |-> "tag", dupes |-> dupes.assets]

\* the effect on [asset]: the request for the duplicates
dupesRequest == [kind |-> "content", dupes |-> {}]

\* the answer of the similar request: res.data without the slugs of dupes
filtered(data, dupes) == {a \in data : a \notin dupes}

\* Asset is mounted. The first render runs both effects with dupes not loading;
\* setDupes makes dupes.loading true, and the effect on [asset, dupes.loading]
\* runs again in the next render.
assetMounted ==
  /\ ~related.mounted
  /\ related' = [related EXCEPT
       !.mounted = TRUE,
       !.dupes = [assets |-> {}, loading |-> TRUE],
       !.similar = [assets |-> {}, loading |-> TRUE],
       !.net = <<dupesRequest,
                 similarRequest([assets |-> {}, loading |-> FALSE]),
                 similarRequest([assets |-> {}, loading |-> TRUE])>>]
  /\ UNCHANGED <<mon, selectedIds, label, viewer, hook>>
  /\ UNCHANGED earlierVars

\* the answer of the duplicates request: dupes.loading becomes false and the
\* effect on [asset, dupes.loading] runs once more
dupesLoaded(i) ==
  /\ i \in 1..Len(related.net)
  /\ related.net[i].kind = "content"
  /\ LET loaded == [assets |-> related.content, loading |-> FALSE]
     IN  related' = [related EXCEPT
           !.dupes = loaded,
           !.similar = [assets |-> {}, loading |-> TRUE],
           !.net = Append(RemoveAt(@, i), similarRequest(loaded))]
  /\ UNCHANGED <<mon, selectedIds, label, viewer, hook>>
  /\ UNCHANGED earlierVars

\* the answer of a request for the assets similar by tag
similarLoaded(i) ==
  /\ i \in 1..Len(related.net)
  /\ related.net[i].kind = "tag"
  /\ related' = [related EXCEPT
       !.similar = [assets |-> filtered(related.tagged, related.net[i].dupes),
                    loading |-> FALSE],
       !.net = RemoveAt(@, i)]
  /\ UNCHANGED <<mon, selectedIds, label, viewer, hook>>
  /\ UNCHANGED earlierVars

InitRelated ==
  \E content, tagged \in SUBSET RelatedPool :
    related = [NoAsset EXCEPT !.content = content, !.tagged = tagged]

NextRelated ==
  \/ assetMounted
  \/ \E i \in 1..Len(related.net) : dupesLoaded(i)
  \/ \E i \in 1..Len(related.net) : similarLoaded(i)

\* C29: when every request of the Asset has been answered, no asset is both
\* in the list of the duplicates and in the list of the similar assets.
C29_Disjoint ==
  (related.mounted /\ related.net = <<>>) =>
    related.similar.assets \cap related.dupes.assets = {}

---------------------------------------------------------------------------
(* MediaCtrl: the cursor and the selection *)

ClickKeys == {"ctrl", "shift", "none"}
Steps == {1, 2}       \* the n of prevPhoto(n) and nextPhoto(n)

\* MediaCtrl.togglePhoto
togglePhoto(id) ==
  IF id \in selectedIds THEN selectedIds \ {id} ELSE selectedIds \cup {id}

\* the loop of the shift branch of handleClick: from the smaller of the cursor
\* and the clicked index up to, and without, the larger; and the clicked id
shiftRange(cursor, index, id) ==
  {scope.photos[i + 1] : i \in Min({cursor, index})..(Max({cursor, index}) - 1)} \cup {id}

\* MediaCtrl.handleClick(id, index, $event) on the thumbnail at index
handleClick(index, key) ==
  /\ app = "media"
  /\ index \in 0..(Len(scope.photos) - 1)
  /\ LET id == scope.photos[index + 1]
     IN  CASE key = "ctrl" ->
                /\ selectedIds' = togglePhoto(id)
                /\ scope' = scope
           [] key = "shift" ->
                /\ selectedIds' = selectedIds \cup shiftRange(scope.cursor, index, id)
                /\ scope' = scope
           [] OTHER ->
                /\ selectedIds' = {}
                /\ scope' = [scope EXCEPT !.cursor = index]
  /\ UNCHANGED <<thumbs, tnet, mnet, catalog, app>>
  /\ UNCHANGED <<mon, label, viewer, related, hook>>
  /\ UNCHANGED <<toggleVars, editVars, photoVars, deleteVars, batchVars, tagVars>>

\* MediaCtrl.prevPhoto
prevPhoto(n) ==
  /\ app = "media"
  /\ ~(scope.cursor <= 0)
  /\ scope' = [scope EXCEPT !.cursor = Max({0, scope.cursor - n})]
  /\ UNCHANGED <<thumbs, tnet, mnet, catalog, app>>
  /\ UNCHANGED <<toggleVars, editVars, photoVars, laterVars>>

\* MediaCtrl.nextPhoto
nextPhoto(n) ==
  /\ app = "media"
  /\ LET L == Len(scope.photos) - 1
     IN  /\ ~(scope.cursor >= L)
         /\ scope' = [scope EXCEPT !.cursor = Min({L, scope.cursor + n})]
  /\ UNCHANGED <<thumbs, tnet, mnet, catalog, app>>
  /\ UNCHANGED <<toggleVars, editVars, photoVars, laterVars>>

NextMediaUi ==
  \/ \E index \in 0..(MaxAssets - 1), key \in ClickKeys : handleClick(index, key)
  \/ \E n \in Steps : prevPhoto(n)
  \/ \E n \in Steps : nextPhoto(n)
  \/ deletePhoto
  \/ \E i \in 1..Len(dnet) : deleteServed(i)
  \/ \E i \in 1..Len(dnet) : photoDeleted(i)

\* the photos from one index to another, both included, in either direction
Between(a, b) == {scope.photos[i + 1] : i \in Min({a, b})..Max({a, b})}

\* C24: a click with the shift key adds the photos between the cursor and the
\* clicked photo, both included, to the selection and leaves the cursor alone.
C24_ShiftRange ==
  [][\A index \in 0..(MaxAssets - 1) :
       handleClick(index, "shift") =>
         /\ selectedIds' = selectedIds \cup Between(scope.cursor, index)
         /\ scope'.cursor = scope.cursor]_vars

\* C25: a cursor that is not negative is the index of a loaded photo.
C25_CursorValid == scope.cursor >= 0 => scope.cursor < Len(scope.photos)

---------------------------------------------------------------------------
(* The monitor script *)

Debounce == 59    \* seconds the trigger must be old before an import starts
Nap == 31         \* seconds of one sleep of the import loop

\* What the directory of the trigger sees when mv puts the temporary file in
\* the place of the trigger. mv renames when both are on one file system, as
\* two paths of mktemp are: the directory sees moved_to and no create. mv
\* copies when they are not, and the directory sees create. The inotifywait
\* of the import loop listens for create only.
MoveEvents == {"moved_to", "create"}

\* an age in seconds; from Debounce on the ages are not told apart
Older(age) == IF age = Null THEN Null ELSE IF age < Debounce THEN age + 1 ELSE Debounce

\* a file is created under the watched tree: the first inotifywait writes a line
fileCreated ==
  /\ mon.events < MaxEvents
  /\ mon' = [mon EXCEPT !.events = @ + 1, !.wq = @ + 1, !.last = 0, !.owed = TRUE]
  /\ UNCHANGED <<selectedIds, label, viewer, related, hook>>
  /\ UNCHANGED <<toggleVars, pagerVars, editVars, photoVars, deleteVars, batchVars, tagVars>>

\* the body of the first loop: read a line, write the date to a temporary
\* file and move it to the trigger
recordEvent(kind) ==
  /\ mon.wq > 0
  /\ mon' = [mon EXCEPT !.wq = @ - 1, !.trigger = 0,
                        !.tq = IF kind = "create" THEN @ + 1 ELSE @]
  /\ UNCHANGED <<selectedIds, label, viewer, related, hook>>
  /\ UNCHANGED <<toggleVars, pagerVars, editVars, photoVars, deleteVars, batchVars, tagVars>>

\* the second loop reads a line of its inotifywait
readTrigger ==
  /\ mon.ipc = "read" /\ mon.tq > 0
  /\ mon' = [mon EXCEPT !.tq = @ - 1, !.ipc = "test"]
  /\ UNCHANGED <<selectedIds, label, viewer, related, hook>>
  /\ UNCHANGED <<toggleVars, pagerVars, editVars, photoVars, deleteVars, batchVars, tagVars>>

\* (( $(date +%s) < $(cat ${trigger}) + 59 )): without a trigger file cat
\* prints nothing, the right side is +59, and the test fails
tooYoung(trigger) == trigger # Null /\ trigger < Debounce

\* the inner loop tests the age of the trigger and sleeps or goes on
testTrigger ==
  /\ mon.ipc = "test"
  /\ mon' = IF tooYoung(mon.trigger) THEN [mon EXCEPT !.ipc = "sleep", !.nap = Nap]
            ELSE [mon EXCEPT !.ipc = "rm"]
  /\ UNCHANGED <<selectedIds, label, viewer, related, hook>>
  /\ UNCHANGED <<toggleVars, pagerVars, editVars, photoVars, deleteVars, batchVars, tagVars>>

\* sleep 31 is over
slept ==
  /\ mon.ipc = "sleep" /\ mon.nap = 0
  /\ mon' = [mon EXCEPT !.ipc = "test"]
  /\ UNCHANGED <<selectedIds, label, viewer, related, hook>>
  /\ UNCHANGED <<toggleVars, pagerVars, editVars, photoVars, deleteVars, batchVars, tagVars>>

\* rm -f ${trigger}, and the import starts
import ==
  /\ mon.ipc = "rm"
  /\ mon' = [mon EXCEPT !.ipc = "import", !.trigger = Null, !.gap = mon.last,
                        !.owed = FALSE]
  /\ UNCHANGED <<selectedIds, label, viewer, related, hook>>
  /\ UNCHANGED <<toggleVars, pagerVars, editVars, photoVars, deleteVars, batchVars, tagVars>>

\* import, thumbnail and modify are done, and the loop reads again
imported ==
  /\ mon.ipc = "import"
  /\ mon' = [mon EXCEPT !.ipc = "read"]
  /\ UNCHANGED <<selectedIds, label, viewer, related, hook>>
  /\ UNCHANGED <<toggleVars, pagerVars, editVars, photoVars, deleteVars, batchVars, tagVars>>

\* a second passes
tick ==
  /\ mon' = [mon EXCEPT !.trigger = Older(@), !.last = Older(@),
                        !.nap = IF @ > 0 THEN @ - 1 ELSE 0]
  /\ mon' # mon
  /\ UNCHANGED <<selectedIds, label, viewer, related, hook>>
  /\ UNCHANGED <<toggleVars, pagerVars, editVars, photoVars, deleteVars, batchVars, tagVars>>

RestMonitor ==
  mon = [events |-> 0, wq |-> 0, tq |-> 0, trigger |-> Null, ipc |-> "read", nap |-> 0,
         last |-> Null, gap |-> Null, owed |-> FALSE]

NextMonitor ==
  \/ fileCreated
  \/ \E kind \in MoveEvents : recordEvent(kind)
  \/ readTrigger
  \/ testTrigger
  \/ slept
  \/ import
  \/ imported
  \/ tick

\* the loops and the clock go on; files are created when they are
FairMonitor ==
  /\ WF_vars(\E kind \in MoveEvents : recordEvent(kind))
  /\ WF_vars(readTrigger) /\ WF_vars(testTrigger) /\ WF_vars(slept)
  /\ WF_vars(import) /\ WF_vars(imported) /\ WF_vars(tick)

C23_NoFileLost == mon.owed ~> ~mon.owed

---------------------------------------------------------------------------
(* Specifications: one client at a time, the others at rest *)

RestToggle ==
  /\ activeTags = <<>> /\ location = Slash
  /\ path = PathOf(BrowseRoute, <<>>) /\ vpath = PathOf(ViewRoute, <<>>)
  /\ tlog = <<>>

RestPager ==
  /\ thumbs = [query |-> "none", assets |-> <<>>, asset |-> Null, cursor |-> Null,
               loading |-> FALSE, exhausted |-> FALSE, selected |-> {},
               superseded |-> FALSE]
  /\ tnet = <<>>
  /\ scope = [photos |-> <<>>, loading |-> FALSE, exhausted |-> FALSE, cursor |-> -1]
  /\ mnet = <<>>
  /\ catalog = [q \in QueryNames |-> <<>>]
  /\ app = "editing"

RestEdit ==
  /\ server = <<>> /\ asset = [filters |-> <<>>] /\ anet = <<>>
  /\ editor = NoEditor
  /\ elog = NoLog(<<>>)

RestPhoto ==
  /\ photo = [user_tags |-> <<>>] /\ pserver = <<>> /\ pnet = <<>> /\ phlog = <<>>
  /\ wanted = {}

RestDelete == dnet = <<>> /\ gone = {}

RestTags == RestTagUi /\ RestRoute

RestView == viewer = [current |-> Null] /\ hook = [NewHook(0) EXCEPT !.net = <<>>]
RestUi == selectedIds = {} /\ RestLabel /\ RestView /\ RestRelated

RestMore ==
  /\ RestMonitor /\ RestUi

RestLater == RestDelete /\ RestBatch /\ RestTags /\ RestMore

InitOfToggle == InitToggle /\ RestPager /\ RestEdit /\ RestPhoto /\ RestLater
InitOfPager == InitPager /\ RestToggle /\ RestEdit /\ RestPhoto /\ RestLater
InitOfPipeline == InitEdit /\ RestToggle /\ RestPager /\ RestPhoto /\ RestLater
InitOfEditor == InitEditor /\ RestToggle /\ RestPager /\ RestPhoto /\ RestLater
InitOfPhoto == InitPhoto /\ RestToggle /\ RestPager /\ RestEdit /\ RestLater
InitOfBatch ==
  /\ InitBatch /\ RestToggle /\ RestEdit /\ RestPhoto /\ RestDelete /\ RestTags
  /\ RestMore
InitOfRoute ==
  /\ RestRoute /\ RestTagUi
  /\ RestToggle /\ RestPager /\ RestEdit /\ RestPhoto /\ RestDelete /\ RestBatch
  /\ RestMore
InitOfTags ==
  /\ InitTags /\ RestRoute
  /\ RestToggle /\ RestPager /\ RestEdit /\ RestPhoto /\ RestDelete /\ RestBatch
  /\ RestMore
InitOfMonitor ==
  /\ RestMonitor /\ RestUi
  /\ RestToggle /\ RestPager /\ RestEdit /\ RestPhoto /\ RestDelete /\ RestBatch /\ RestTags
InitOfMedia ==
  /\ InitPager /\ app = "media"
  /\ RestToggle /\ RestEdit /\ RestPhoto /\ RestLater
InitOfLabel ==
  /\ RestMonitor /\ selectedIds = {} /\ RestLabel /\ RestView /\ RestRelated
  /\ RestToggle /\ RestPager /\ RestEdit /\ RestPhoto /\ RestDelete /\ RestBatch /\ RestTags
InitOfView ==
  /\ InitView
  /\ RestMonitor /\ selectedIds = {} /\ RestLabel /\ RestRelated
  /\ RestToggle /\ RestPager /\ RestEdit /\ RestPhoto /\ RestDelete /\ RestBatch /\ RestTags
InitOfRelated ==
  /\ InitRelated
  /\ RestMonitor /\ selectedIds = {} /\ RestLabel /\ RestView
  /\ RestToggle /\ RestPager /\ RestEdit /\ RestPhoto /\ RestDelete /\ RestBatch /\ RestTags
InitOfDelete ==
  /\ InitPager /\ RestToggle /\ RestEdit /\ RestPhoto /\ RestBatch /\ RestDelete /\ RestTags
  /\ RestMore

NextPager == NextThumbs \/ NextMedia

SpecToggle == InitOfToggle /\ [][NextToggle]_vars
SpecPager == InitOfPager /\ [][NextPager]_vars
SpecPipeline == InitOfPipeline /\ [][NextPipeline]_vars
SpecEditor == InitOfEditor /\ [][NextEditor]_vars
SpecPhoto == InitOfPhoto /\ [][NextPhoto]_vars
SpecBatch == InitOfBatch /\ [][NextBatch]_vars
SpecRoute == InitOfRoute /\ [][NextRoute]_vars
SpecTags == InitOfTags /\ [][NextTags]_vars
SpecMonitor == InitOfMonitor /\ [][NextMonitor]_vars /\ FairMonitor
SpecMedia == InitOfMedia /\ [][NextMedia \/ NextMediaUi]_vars
SpecLabel == InitOfLabel /\ [][NextLabel]_vars
SpecView == InitOfView /\ [][NextView]_vars
SpecRelated == InitOfRelated /\ [][NextRelated]_vars
SpecDelete == InitOfDelete /\ [][NextPager \/ NextDelete]_vars

---------------------------------------------------------------------------
=============================================================================
